---- MODULE Spec2Model ----
(***************************************************************************)
(* GoMusicBot: the InteractionHandler (tenant registry, command handlers,  *)
(* presence monitor) of internal/discord, the interaction callback of      *)
(* cmd/main.go, and the GuildPlayer the handlers drive.                     *)
(*                                                                         *)
(* The InteractionHandler and main are translated from the source.  The    *)
(* GuildPlayer (package bot) is a collaborator whose code is not part of   *)
(* the source tree at hand; its operations (the GP_ definitions and the    *)
(* control-loop steps) follow the specification's sections 3, 4.1 and 5.   *)
(***************************************************************************)
EXTENDS Integers, Sequences, FiniteSets, Bags, TLC

(* ------------------------------ bounds --------------------------------- *)
\* GuildPlayer objects ever constructed by setupGuildPlayer
MaxPlayers == 2
\* interactions delivered to the interaction callback
MaxInteractions == 3
\* songs a multi-result lookup returns
ListLen == 3
\* largest position a remove command is tried with
MaxPos == 3
\* goroutines running callbacks at the same time
MaxThreads == 3
\* callbacks under way at the same time, statement by statement
MaxRunning == 2
\* presence-monitor loops that are inside a tick at the same time
MaxTicking == 1
\* frames of the longest song
MaxFrames == 3
\* song keys that are resolved
NumKeys == 3
\* Resolve calls made
MaxCalls == 4
\* configured capacity of the audio cache, in units of entry size
Capacity == 3
\* configured capacity of the metadata cache (its entries have size 1)
MetaCapacity == 2
\* size of the largest audio entry
MaxSize == 2

\* tenants (guilds) the gateway reports events for; each has one text channel
Guilds == {"g1", "g2"}
PlayerIds == 1..MaxPlayers
\* the map lookup that finds nothing (ok = false)
NoPlayer == 0
\* the nil *voice.Song
NoSong == 0

VARIABLES
    guildsPlayers,  \* handler.guildsPlayers: guild -> player id, NoPlayer when absent
    players,        \* every GuildPlayer constructed so far, by id
    lookups,        \* PlaySong's lookup goroutines still running
    songLists,      \* handler.storage: channel (one per guild) -> saved song list
    monitors,       \* the CheckVoiceChannelsPresence loops running (a bag),
                    \* each at its select or at a statement of a tick
    interactions,   \* interactions the callback has received
    ctxDone,        \* handler.ctx cancelled
    resp,           \* the response the latest step sent to the chat platform
    mapUse,         \* the accesses to handler.guildsPlayers that are executing
    goroutines,     \* the callbacks under way, each at one of its statements
    metaCache,      \* the metadata cache's entries
    audioCache,     \* the audio cache's entries
    flights,        \* the fetches in flight, each with the calls waiting on it
    calls,          \* every Resolve call so far: its key, its fetch, its result
    clock,          \* the caches' last-access clock
    streams         \* the Frame Streamer task of each player

handlerVars == <<guildsPlayers, players, lookups, songLists, monitors,
                 interactions, ctxDone, resp>>

pipelineVars == <<metaCache, audioCache, flights, calls, clock, streams>>

vars == <<handlerVars, mapUse, goroutines, pipelineVars>>

(* ------------------------------ helpers -------------------------------- *)
\* goroutines that run the handler's callbacks
Threads == 1..MaxThreads

\* no goroutine is in a callback, the runtime has thrown no fatal error
IdleThread ==
    [cb |-> "none", guild |-> "none", pc |-> "idle", player |-> NoPlayer,
     todo |-> {}, seen |-> {}]

NoMapUse == [by |-> [t \in Threads |-> IdleThread], fatal |-> FALSE]

Range(s) == {s[i] : i \in 1..Len(s)}

\* s without its i-th element
RemoveAt(s, i) == [j \in 1..(Len(s) - 1) |-> IF j < i THEN s[j] ELSE s[j + 1]]

\* the i-th song (1-based) found by the lookup of interaction number n:
\* LookupSongs allocates fresh *voice.Song values on every call
SongOf(n, i) == (n - 1) * ListLen + i

\* what the latest step sent to the chat platform or, in a presence-monitor
\* loop, read and logged; NoResp when there is nothing of the kind:
\* the command answered and its argument, the player the handler resolved to
\* and that player's state when the handler reached it, and the response (its
\* kind, the playlist or the song it names)
NoResp == [op |-> "none", guild |-> "none", player |-> NoPlayer, arg |-> 0,
           before |-> "none", result |-> "none", list |-> <<>>, song |-> NoSong]

Resp(o, g, p, a, b, r, l, s) ==
    [op |-> o, guild |-> g, player |-> p, arg |-> a, before |-> b, result |-> r,
     list |-> l, song |-> s]

\* the response of a handler that failed to find the guild in the session state
ServerError(o, g, a) == Resp(o, g, NoPlayer, a, "none", "ServerError", <<>>, NoSong)

(* --------------------------- GuildPlayer -------------------------------- *)
\* bot.NewGuildPlayer: Idle, empty queue, nothing playing, Run not started.
\* added / started / played / removed / failed / closes record what happened
\* to the player; no operation reads them.
NewGuildPlayer(g) ==
    [guild |-> g, state |-> "Idle", queue |-> <<>>, current |-> NoSong,
     running |-> FALSE, cancelled |-> FALSE, closes |-> 0,
     added |-> <<>>, started |-> <<>>, played |-> {}, removed |-> {},
     failed |-> {}]

\* AddSong that appends whatever the player's state
GP_AddSongAnyState(pl, song, ok) ==
    IF ~ok THEN pl
    ELSE [pl EXCEPT !.queue = Append(@, song), !.added = Append(@, song)]

\* AddSong: appends to the queue; a Closed player accepts nothing; ok = FALSE
\* is the voice session that cannot be opened (the error goes to the caller)
GP_AddSong(pl, song, ok) ==
    IF pl.state = "Closed" \/ ~ok THEN pl
    ELSE [pl EXCEPT !.queue = Append(@, song), !.added = Append(@, song)]

GP_AddSongErr(pl, ok) == pl.state = "Closed" \/ ~ok

\* SkipSong: invalidates the current song's token; no-op when nothing is in flight
GP_SkipSong(pl) ==
    IF pl.state \in {"Loading", "Playing"} THEN [pl EXCEPT !.cancelled = TRUE]
    ELSE pl

\* Stop that closes the VoiceSession on every call
GP_StopAgain(pl) ==
    [pl EXCEPT !.state = "Closed", !.cancelled = TRUE, !.current = NoSong,
               !.removed = @ \cup Range(pl.queue), !.queue = <<>>,
               !.closes = @ + 1]

\* Stop: cancels the stream, clears the queue, closes the VoiceSession, Closed;
\* a second call is a no-op
GP_Stop(pl) ==
    IF pl.state = "Closed" THEN pl
    ELSE [pl EXCEPT !.state = "Closed", !.cancelled = TRUE, !.current = NoSong,
                    !.removed = @ \cup Range(pl.queue), !.queue = <<>>,
                    !.closes = @ + 1]

\* Stop's error result: failed is the VoiceSession or the queue that cannot
\* be closed; a call on a Closed player is a no-op, not an error
GP_StopErr(pl, failed) == failed /\ pl.state # "Closed"

\* Close (tenant removal): Stop first, then the player is destroyed
GP_Close(pl) == GP_Stop(pl)

\* Close's error result: the error of the Stop it begins with
GP_CloseErr(pl, failed) == GP_StopErr(pl, failed)

\* RemoveSong: the position is 1-based in the pending queue
GP_RemoveValid(pl, pos) ==
    pl.state # "Closed" /\ 1 <= pos /\ pos <= Len(pl.queue)

GP_RemoveSong(pl, pos) ==
    IF GP_RemoveValid(pl, pos)
    THEN [pl EXCEPT !.queue = RemoveAt(@, pos),
                    !.removed = @ \cup {pl.queue[pos]}]
    ELSE pl

\* GetPlaylist: a snapshot of the pending queue
GP_GetPlaylist(pl) == pl.queue

\* GetPlayedSong: the streaming song, none when Idle
GP_GetPlayedSong(pl) == pl.current

(* ---------------------- GuildPlayer control loop ------------------------ *)
\* The loop started by Run: whenever the player is Idle and the queue is
\* non-empty it dequeues the head and enters Loading with a fresh token.
StartLoading(p) ==
    /\ ~ctxDone
    /\ p \in 1..Len(players)
    /\ players[p].running
    /\ players[p].state = "Idle"
    /\ players[p].queue # <<>>
    /\ players' = [players EXCEPT ![p] =
                      [@ EXCEPT !.state = "Loading",
                                !.current = Head(players[p].queue),
                                !.queue = Tail(players[p].queue),
                                !.started = Append(@, Head(players[p].queue)),
                                !.cancelled = FALSE]]
    /\ UNCHANGED <<guildsPlayers, lookups, songLists, monitors, interactions,
                   ctxDone>>
    /\ resp' = NoResp
    /\ UNCHANGED <<mapUse, goroutines, pipelineVars>>

\* Resolve returned the frame sequence: frames begin flowing
FetchDone(p) ==
    /\ ~ctxDone
    /\ p \in 1..Len(players)
    /\ players[p].state = "Loading"
    /\ ~players[p].cancelled
    /\ players' = [players EXCEPT ![p] =
                      [@ EXCEPT !.state = "Playing",
                                !.played = @ \cup {players[p].current}]]
    /\ UNCHANGED <<guildsPlayers, lookups, songLists, monitors, interactions,
                   ctxDone>>
    /\ resp' = NoResp
    /\ UNCHANGED <<mapUse, goroutines, pipelineVars>>

\* the song is over for the player: it is dropped and the queue advances
EndSong(pl, isError) ==
    [pl EXCEPT !.state = "Idle", !.current = NoSong,
               !.failed = IF isError THEN @ \cup {pl.current} ELSE @]

\* Resolve failed (LookupFailed / TranscodeFailed): log, skip to the next song
FetchError(p) ==
    /\ ~ctxDone
    /\ p \in 1..Len(players)
    /\ players[p].state = "Loading"
    /\ players' = [players EXCEPT ![p] = EndSong(@, TRUE)]
    /\ UNCHANGED <<guildsPlayers, lookups, songLists, monitors, interactions,
                   ctxDone>>
    /\ resp' = NoResp
    /\ UNCHANGED <<mapUse, goroutines, pipelineVars>>

\* the Frame Streamer wrote the last frame of the song
SongComplete(p) ==
    /\ ~ctxDone
    /\ p \in 1..Len(players)
    /\ players[p].state = "Playing"
    /\ players' = [players EXCEPT ![p] = EndSong(@, FALSE)]
    /\ UNCHANGED <<guildsPlayers, lookups, songLists, monitors, interactions,
                   ctxDone>>
    /\ resp' = NoResp
    /\ UNCHANGED <<mapUse, goroutines, pipelineVars>>

\* SendFrame failed: fatal for the current song only
TransportError(p) ==
    /\ ~ctxDone
    /\ p \in 1..Len(players)
    /\ players[p].state = "Playing"
    /\ players' = [players EXCEPT ![p] = EndSong(@, TRUE)]
    /\ UNCHANGED <<guildsPlayers, lookups, songLists, monitors, interactions,
                   ctxDone>>
    /\ resp' = NoResp
    /\ UNCHANGED <<mapUse, goroutines, pipelineVars>>

\* the fetch pipeline or the Frame Streamer observes the invalidated token
CancelObserved(p) ==
    /\ ~ctxDone
    /\ p \in 1..Len(players)
    /\ players[p].state \in {"Loading", "Playing"}
    /\ players[p].cancelled
    /\ players' = [players EXCEPT ![p] = EndSong(@, FALSE)]
    /\ UNCHANGED <<guildsPlayers, lookups, songLists, monitors, interactions,
                   ctxDone>>
    /\ resp' = NoResp
    /\ UNCHANGED <<mapUse, goroutines, pipelineVars>>

(* ------------------- Cache Layer, Audio Source Pipeline ----------------- *)
\* A cache is a set of entries [key, size, payload, at, born]: at is the
\* last-access time, born the time of insertion, payload the fetch that
\* produced the entry's data.
Keys == 1..NumKeys

\* the call that waits on no fetch
NoFetch == 0

RECURSIVE CacheSize(_)
CacheSize(c) ==
    IF c = {} THEN 0
    ELSE LET e == CHOOSE x \in c : TRUE IN e.size + CacheSize(c \ {e})

CacheHas(c, k) == \E e \in c : e.key = k

CacheEntry(c, k) == CHOOSE e \in c : e.key = k

\* a hit: the entry's last-access time is now
CacheTouch(c, k, now) ==
    {IF e.key = k THEN [e EXCEPT !.at = now] ELSE e : e \in c}

\* the entry accessed last
MostRecent(c) == CHOOSE e \in c : \A f \in c : f.at <= e.at

\* the entry with the oldest last-access time
LeastRecent(c) == CHOOSE e \in c : \A f \in c : e.at <= f.at

\* an eviction sweep that removes a single entry
EvictOne(c, need, cap) ==
    IF c = {} \/ CacheSize(c) + need <= cap THEN c ELSE c \ {LeastRecent(c)}

\* the eviction sweep: least-recently-used entries go until need more fits
RECURSIVE Evict(_, _, _)
Evict(c, need, cap) ==
    IF c = {} \/ CacheSize(c) + need <= cap THEN c
    ELSE Evict(c \ {LeastRecent(c)}, need, cap)

\* insertion; CacheCapacityExceeded triggers the sweep and is no failure
CachePut(c, k, size, payload, now, cap) ==
    Evict({e \in c : e.key # k}, size, cap)
        \cup {[key |-> k, size |-> size, payload |-> payload, at |-> now,
               born |-> now]}

\* a lookup of in-flight fetches that finds none
NoFlightFor(k) == {}

\* the fetches in flight for key k
FlightFor(k) == {f \in flights : f.key = k}

\* a Resolve call as the history keeps it
Call(k, fetch, result, payload) ==
    [key |-> k, fetch |-> fetch, result |-> result, payload |-> payload,
     evicted |-> {}]

\* Resolve(k): the metadata cache is probed (on a miss the metadata is stored),
\* then the audio cache; an audio hit answers at once, a miss joins the fetch
\* in flight for k or, when there is none, invokes the fetch collaborator
ResolveCall(k) ==
    /\ Len(calls) < MaxCalls
    /\ clock' = clock + 1
    /\ metaCache' = IF CacheHas(metaCache, k)
                    THEN CacheTouch(metaCache, k, clock + 1)
                    ELSE CachePut(metaCache, k, 1, k, clock + 1, MetaCapacity)
    /\ LET id == Len(calls) + 1 IN
       IF CacheHas(audioCache, k)
       THEN /\ audioCache' = CacheTouch(audioCache, k, clock + 1)
            /\ calls' = Append(calls, Call(k, NoFetch, "frames",
                                           CacheEntry(audioCache, k).payload))
            /\ UNCHANGED flights
       ELSE IF FlightFor(k) # {}
       THEN /\ flights' = {IF f.key = k THEN [f EXCEPT !.waiters = @ \cup {id}]
                                         ELSE f : f \in flights}
            /\ calls' = Append(calls, Call(k, (CHOOSE f \in FlightFor(k) : TRUE).id,
                                           "pending", NoFetch))
            /\ UNCHANGED audioCache
       ELSE /\ flights' = flights \cup {[id |-> id, key |-> k, waiters |-> {id}]}
            /\ calls' = Append(calls, Call(k, id, "pending", NoFetch))
            /\ UNCHANGED audioCache
    /\ UNCHANGED <<handlerVars, mapUse, goroutines, streams>>

\* the calls after fetch f has answered its waiters
Answered(f, result, payload, evicted) ==
    [i \in 1..Len(calls) |->
        IF i \in f.waiters
        THEN [calls[i] EXCEPT !.result = result, !.payload = payload,
                              !.evicted = IF i = f.id THEN evicted ELSE {}]
        ELSE calls[i]]

\* the fetch/transcode collaborator returns frames: they are stored in the
\* audio cache and every waiter receives them
FetchFrames(f, size) ==
    /\ f \in flights
    /\ clock' = clock + 1
    /\ audioCache' = CachePut(audioCache, f.key, size, f.id, clock + 1, Capacity)
    /\ calls' = Answered(f, "frames", f.id,
                         {e \in audioCache : ~CacheHas(audioCache', e.key)})
    /\ flights' = flights \ {f}
    /\ UNCHANGED <<handlerVars, mapUse, goroutines, metaCache, streams>>

\* the collaborator fails: every waiter receives the error, nothing is cached
FetchFails(f) ==
    /\ f \in flights
    /\ calls' = Answered(f, "TranscodeFailed", f.id, {})
    /\ flights' = flights \ {f}
    /\ UNCHANGED <<handlerVars, mapUse, goroutines, metaCache, audioCache, clock, streams>>

(* ---------------------------- Frame Streamer ---------------------------- *)
\* The streaming of a song frame by frame.  The streamer is a task of its own:
\* before each frame it checks the song's token (pc = "check"), then writes
\* the frame to the VoiceSession (pc = "write").  left is the number of frames
\* still to write, late the number written after the token was invalidated.
NoStream == [pc |-> "none", left |-> 0, late |-> 0]

\* Resolve succeeded: the player is Playing and its streamer starts on the
\* song's frames
StreamStart(p) ==
    /\ ~ctxDone
    /\ p \in 1..Len(players)
    /\ players[p].state = "Loading"
    /\ ~players[p].cancelled
    /\ streams[p].pc = "none"
    /\ players' = [players EXCEPT ![p] =
                      [@ EXCEPT !.state = "Playing",
                                !.played = @ \cup {players[p].current}]]
    /\ \E n \in 1..MaxFrames :
          streams' = [streams EXCEPT ![p] = [pc |-> "check", left |-> n, late |-> 0]]
    /\ UNCHANGED <<guildsPlayers, lookups, songLists, monitors, interactions,
                   ctxDone, mapUse, goroutines, metaCache, audioCache, flights, calls, clock>>
    /\ resp' = NoResp

\* the player after its streamer has returned: a Playing player takes the end
\* of the song, a player that Stop has closed stays as it is
StreamEnded(pl, isError) == IF pl.state = "Playing" THEN EndSong(pl, isError) ELSE pl

\* a check that looks at the number of frames left and never at the token
StreamCheckOnce(p) ==
    /\ ~ctxDone
    /\ streams[p].pc = "check"
    /\ IF streams[p].left = 0
       THEN /\ streams' = [streams EXCEPT ![p].pc = "none"]
            /\ players' = [players EXCEPT ![p] = StreamEnded(@, FALSE)]
       ELSE /\ streams' = [streams EXCEPT ![p].pc = "write"]
            /\ UNCHANGED players
    /\ UNCHANGED <<guildsPlayers, lookups, songLists, monitors, interactions,
                   ctxDone, mapUse, goroutines, metaCache, audioCache, flights, calls, clock>>
    /\ resp' = NoResp

\* the check before a frame: an invalidated token or the end of the frames
\* ends the stream, otherwise the streamer goes on to write the frame
StreamCheck(p) ==
    /\ ~ctxDone
    /\ streams[p].pc = "check"
    /\ IF players[p].cancelled \/ streams[p].left = 0
       THEN /\ streams' = [streams EXCEPT ![p].pc = "none"]
            /\ players' = [players EXCEPT ![p] = StreamEnded(@, FALSE)]
       ELSE /\ streams' = [streams EXCEPT ![p].pc = "write"]
            /\ UNCHANGED players
    /\ UNCHANGED <<guildsPlayers, lookups, songLists, monitors, interactions,
                   ctxDone, mapUse, goroutines, metaCache, audioCache, flights, calls, clock>>
    /\ resp' = NoResp

\* the write of a frame: it reaches the VoiceSession, or the transport fails
\* and the stream ends with a TransportError
StreamWrite(p) ==
    /\ ~ctxDone
    /\ streams[p].pc = "write"
    /\ \E ok \in BOOLEAN :
          IF ok
          THEN /\ streams' = [streams EXCEPT ![p] =
                                 [pc |-> "check", left |-> @.left - 1,
                                  late |-> IF players[p].cancelled
                                           THEN @.late + 1 ELSE @.late]]
               /\ UNCHANGED players
          ELSE /\ streams' = [streams EXCEPT ![p].pc = "none"]
               /\ players' = [players EXCEPT ![p] = StreamEnded(@, TRUE)]
    /\ UNCHANGED <<guildsPlayers, lookups, songLists, monitors, interactions,
                   ctxDone, mapUse, goroutines, metaCache, audioCache, flights, calls, clock>>
    /\ resp' = NoResp

(* --------------------------- tenant registry ---------------------------- *)
\* setupGuildPlayer: constructs a GuildPlayer for the guild; Run is not started
setupGuildPlayer(g) == NewGuildPlayer(g)

\* a GuildPlayer can still be constructed within the model's bound
CanSetup == Len(players) < MaxPlayers

\* getGuildPlayer's read of the map: the guild's player, NoPlayer on a miss
getGuildPlayerRead(g) == guildsPlayers[g]

(* ------------------------- callbacks under way -------------------------- *)
\* The library runs every callback in a goroutine of its own and the handler
\* takes no lock.  A callback is a sequence of steps, each with one access to
\* the map, to the storage or to a player, and the steps of the callbacks
\* under way interleave.  A goroutine record holds the callback's locals: the
\* interaction's number (0 for a gateway event), the callback, the guild,
\* the statement it is at, the player it got, the command's argument (for a
\* selection the number of AddSong calls made), and for a selection the
\* value chosen and the song list it read.
Go(id, cb, g, arg) ==
    [id |-> id, cb |-> cb, guild |-> g, pc |-> "read", player |-> NoPlayer,
     arg |-> arg, value |-> "none", songs |-> <<>>]

\* the handler of interaction id, which came from guild g, has answered and
\* is returning to main's callback
Returning(id, g) ==
    [id |-> id, cb |-> "callback", guild |-> g, pc |-> "return",
     player |-> NoPlayer, arg |-> 0, value |-> "none", songs |-> <<>>]

\* the CheckVoiceChannelsPresence loop the callback of an interaction from
\* guild g has entered, waiting in its select: inside a tick it holds the
\* guilds that had an entry when the range began (todo), the guilds whose
\* entries the range has produced (seen) and, on its way to
\* Stop, the entry at hand (at, player)
Loop(g) ==
    [guild |-> g, pc |-> "wait", at |-> "none", player |-> NoPlayer,
     todo |-> {}, seen |-> {}]

\* the statement a callback goes on to with the player getGuildPlayer returned
AfterLookup(cb) ==
    CASE cb = "GuildDelete" -> "close"
      [] cb = "PlaySong" -> "voice"
      [] cb = "AddSongOrPlaylist" -> "add"
      [] OTHER -> "call"

\* goroutine r after getGuildPlayer's read found p: on a hit it has its
\* player, on a miss it goes on to setupGuildPlayer and the insert
Got(r, p) ==
    IF p # NoPlayer THEN [r EXCEPT !.pc = AfterLookup(r.cb), !.player = p]
    ELSE [r EXCEPT !.pc = "insert"]

\* goroutine r goes on as s
Become(r, s) == goroutines' = (goroutines \ {r}) \cup {s}

\* a callback can still be started within the model's bound
CanStart == Cardinality(goroutines) < MaxRunning

\* getGuildPlayer after a miss: setupGuildPlayer, then the player is stored
getGuildPlayerInsert(r) ==
    /\ r \in goroutines
    /\ r.pc = "insert"
    /\ CanSetup
    /\ players' = Append(players, setupGuildPlayer(r.guild))
    /\ guildsPlayers' = [guildsPlayers EXCEPT ![r.guild] = Len(players) + 1]
    /\ Become(r, [r EXCEPT !.pc = AfterLookup(r.cb), !.player = Len(players) + 1])
    /\ resp' = NoResp
    /\ UNCHANGED <<lookups, songLists, monitors, interactions, ctxDone>>
    /\ UNCHANGED <<mapUse, pipelineVars>>

\* GuildCreate: an unavailable guild is ignored; otherwise a new player is set
\* up and stored under the guild, whatever the map held
GuildCreate(g) ==
    /\ ~ctxDone
    /\ \E unavailable \in BOOLEAN :
          IF unavailable
          THEN UNCHANGED <<guildsPlayers, players, goroutines>>
          ELSE /\ CanSetup
               /\ CanStart
               /\ players' = Append(players, setupGuildPlayer(g))
               /\ guildsPlayers' = [guildsPlayers EXCEPT ![g] = Len(players) + 1]
               /\ goroutines' = goroutines \cup
                      {[Go(0, "GuildCreate", g, 0) EXCEPT
                           !.pc = "run", !.player = Len(players) + 1]}
    /\ UNCHANGED <<lookups, songLists, monitors, interactions, ctxDone>>
    /\ resp' = NoResp
    /\ UNCHANGED <<mapUse, pipelineVars>>

\* GuildCreate after the store: StartListeningEvents, then Run is started
GuildCreateRun(r) ==
    /\ r \in goroutines
    /\ r.cb = "GuildCreate"
    /\ r.pc = "run"
    /\ players' = [players EXCEPT ![r.player].running = TRUE]
    /\ goroutines' = goroutines \ {r}
    /\ resp' = NoResp
    /\ UNCHANGED <<guildsPlayers, lookups, songLists, monitors, interactions,
                   ctxDone>>
    /\ UNCHANGED <<mapUse, pipelineVars>>

\* GuildDelete: the event arrives and getGuildPlayer reads the map
GuildDelete(g) ==
    /\ ~ctxDone
    /\ CanStart
    /\ Got(Go(0, "GuildDelete", g, 0), getGuildPlayerRead(g)) \notin goroutines
    /\ goroutines' = goroutines \cup
           {Got(Go(0, "GuildDelete", g, 0), getGuildPlayerRead(g))}
    /\ resp' = NoResp
    /\ UNCHANGED <<guildsPlayers, players, lookups, songLists, monitors,
                   interactions, ctxDone>>
    /\ UNCHANGED <<mapUse, pipelineVars>>

\* GuildDelete: Close on the player getGuildPlayer returned; an error of
\* Close is logged and the handler goes on
GuildDeleteClose(r) ==
    /\ r \in goroutines
    /\ r.cb = "GuildDelete"
    /\ r.pc = "close"
    /\ \E failed \in BOOLEAN :
          players' = [players EXCEPT ![r.player] =
                         IF GP_CloseErr(@, failed) THEN @ ELSE GP_Close(@)]
    /\ Become(r, [r EXCEPT !.pc = "delete"])
    /\ resp' = NoResp
    /\ UNCHANGED <<guildsPlayers, lookups, songLists, monitors, interactions,
                   ctxDone>>
    /\ UNCHANGED <<mapUse, pipelineVars>>

\* GuildDelete: the guild's entry is deleted from the map
GuildDeleteEntry(r) ==
    /\ r \in goroutines
    /\ r.cb = "GuildDelete"
    /\ r.pc = "delete"
    /\ guildsPlayers' = [guildsPlayers EXCEPT ![r.guild] = NoPlayer]
    /\ goroutines' = goroutines \ {r}
    /\ resp' = NoResp
    /\ UNCHANGED <<players, lookups, songLists, monitors, interactions, ctxDone>>
    /\ UNCHANGED <<mapUse, pipelineVars>>

(* ------------------------ interaction callback -------------------------- *)
\* main's InteractionCreate callback receives an interaction (the session is
\* closed before the context is cancelled) and runs the command's handler
Callback ==
    /\ ~ctxDone
    /\ interactions < MaxInteractions
    /\ CanStart
    /\ interactions' = interactions + 1

\* the handler has returned: the callback calls CheckVoiceChannelsPresence,
\* which loops until the context is done
CallbackReturn(r) ==
    /\ r \in goroutines
    /\ r.pc = "return"
    /\ goroutines' = goroutines \ {r}
    /\ monitors' = monitors (+) SetToBag({Loop(r.guild)})
    /\ resp' = NoResp
    /\ UNCHANGED <<guildsPlayers, players, lookups, songLists, interactions,
                   ctxDone>>
    /\ UNCHANGED <<mapUse, pipelineVars>>

\* an interaction no handler is registered for: the callback goes straight
\* to CheckVoiceChannelsPresence
OtherInteraction(g) ==
    /\ Callback
    /\ monitors' = monitors (+) SetToBag({Loop(g)})
    /\ UNCHANGED <<guildsPlayers, players, lookups, songLists, ctxDone>>
    /\ resp' = NoResp
    /\ UNCHANGED <<mapUse, goroutines, pipelineVars>>

(* --------------------------- command handlers --------------------------- *)
\* the first statements of a command handler: the guild from the session
\* state (a failure is answered with the server error), then getGuildPlayer's
\* read of the map
Enter(cb, op, g, arg) ==
    /\ Callback
    /\ \E guildOk \in BOOLEAN :
          IF ~guildOk
          THEN /\ resp' = ServerError(op, g, arg)
               /\ goroutines' = goroutines \cup {Returning(interactions + 1, g)}
          ELSE /\ resp' = NoResp
               /\ goroutines' = goroutines \cup
                      {Got(Go(interactions + 1, cb, g, arg), getGuildPlayerRead(g))}
    /\ UNCHANGED <<guildsPlayers, players, lookups, songLists, monitors, ctxDone>>
    /\ UNCHANGED <<mapUse, pipelineVars>>

\* goroutine r is at the handler's call to its player
AtCall(r, cb) == r \in goroutines /\ r.cb = cb /\ r.pc = "call"

\* what a handler's call to its player leaves unchanged
CallFrame ==
    /\ UNCHANGED <<guildsPlayers, lookups, songLists, monitors, interactions,
                   ctxDone>>
    /\ UNCHANGED <<mapUse, pipelineVars>>

\* PlaySong: the guild, then getGuildPlayer
PlaySong(g) == Enter("PlaySong", "play", g, 0)

\* PlaySong after getVoiceChannelMembers: the requester's voice state, the
\* deferred response, then the lookup goroutine is started with the player
\* the handler got
PlaySongVoice(r) ==
    /\ r \in goroutines
    /\ r.cb = "PlaySong"
    /\ r.pc = "voice"
    /\ \E inVoice \in BOOLEAN :
          IF ~inVoice
          THEN /\ resp' = Resp("play", r.guild, r.player, 0, players[r.player].state,
                                "NotInVoiceChannel", <<>>, NoSong)
               /\ UNCHANGED lookups
          ELSE /\ resp' = Resp("play", r.guild, r.player, 0, players[r.player].state,
                                "Adding", <<>>, NoSong)
               /\ lookups' = lookups \cup
                      {[cmd |-> r.id, guild |-> r.guild, player |-> r.player]}
    /\ Become(r, Returning(r.id, r.guild))
    /\ UNCHANGED <<guildsPlayers, players, songLists, monitors, interactions,
                   ctxDone>>
    /\ UNCHANGED <<mapUse, pipelineVars>>

\* the songs LookupSongs finds for the command: none, one or ListLen of them
Found(l, n) == [i \in 1..n |-> SongOf(l.cmd, i)]

\* a goroutine that stays to try AddSong again after AddSong returned an error
LookupDoneRetry(l) ==
    /\ l \in lookups
    /\ \E outcome \in {"error", "zero", "one", "many"}, ok \in BOOLEAN :
          LET pl == players[l.player] IN
          CASE outcome = "error" ->
                 /\ lookups' = lookups \ {l}
                 /\ resp' = Resp("lookup", l.guild, l.player, 0, pl.state,
                                 "FailedToAddSong", <<>>, NoSong)
                 /\ UNCHANGED <<players, songLists>>
            [] outcome = "zero" ->
                 /\ lookups' = lookups \ {l}
                 /\ resp' = Resp("lookup", l.guild, l.player, 0, pl.state,
                                 "FailedToFindSong", <<>>, NoSong)
                 /\ UNCHANGED <<players, songLists>>
            [] outcome = "one" ->
                 /\ players' = [players EXCEPT ![l.player] =
                                   GP_AddSong(@, SongOf(l.cmd, 1), ok)]
                 /\ resp' = Resp("lookup", l.guild, l.player, 0, pl.state,
                                 IF GP_AddSongErr(pl, ok)
                                 THEN "FailedToAddSong" ELSE "AddedSong",
                                 <<>>, SongOf(l.cmd, 1))
                 /\ lookups' = IF GP_AddSongErr(pl, ok) THEN lookups
                                                         ELSE lookups \ {l}
                 /\ UNCHANGED songLists
            [] outcome = "many" ->
                 /\ lookups' = lookups \ {l}
                 /\ songLists' = [songLists EXCEPT ![l.guild] = Found(l, ListLen)]
                 /\ resp' = Resp("lookup", l.guild, l.player, 0, pl.state,
                                 "AskAddPlaylist", Found(l, ListLen), NoSong)
                 /\ UNCHANGED players
    /\ UNCHANGED <<guildsPlayers, monitors, interactions, ctxDone>>
    /\ UNCHANGED <<mapUse, goroutines, pipelineVars>>

\* a goroutine that also enqueues the first song of a result of several songs
LookupDoneEnqueuesFirst(l) ==
    /\ l \in lookups
    /\ lookups' = lookups \ {l}
    /\ \E outcome \in {"error", "zero", "one", "many"}, ok \in BOOLEAN :
          LET pl == players[l.player] IN
          CASE outcome = "error" ->
                 /\ resp' = Resp("lookup", l.guild, l.player, 0, pl.state,
                                 "FailedToAddSong", <<>>, NoSong)
                 /\ UNCHANGED <<players, songLists>>
            [] outcome = "zero" ->
                 /\ resp' = Resp("lookup", l.guild, l.player, 0, pl.state,
                                 "FailedToFindSong", <<>>, NoSong)
                 /\ UNCHANGED <<players, songLists>>
            [] outcome = "one" ->
                 /\ players' = [players EXCEPT ![l.player] =
                                   GP_AddSong(@, SongOf(l.cmd, 1), ok)]
                 /\ resp' = Resp("lookup", l.guild, l.player, 0, pl.state,
                                 IF GP_AddSongErr(pl, ok)
                                 THEN "FailedToAddSong" ELSE "AddedSong",
                                 <<>>, SongOf(l.cmd, 1))
                 /\ UNCHANGED songLists
            [] outcome = "many" ->
                 /\ songLists' = [songLists EXCEPT ![l.guild] = Found(l, ListLen)]
                 /\ resp' = Resp("lookup", l.guild, l.player, 0, pl.state,
                                 "AskAddPlaylist", Found(l, ListLen), NoSong)
                 /\ players' = [players EXCEPT ![l.player] =
                                   GP_AddSong(@, SongOf(l.cmd, 1), ok)]
    /\ UNCHANGED <<guildsPlayers, monitors, interactions, ctxDone>>
    /\ UNCHANGED <<mapUse, goroutines, pipelineVars>>

\* PlaySong's goroutine once LookupSongs has returned
LookupDone(l) ==
    /\ l \in lookups
    /\ lookups' = lookups \ {l}
    /\ \E outcome \in {"error", "zero", "one", "many"}, ok \in BOOLEAN :
          LET pl == players[l.player] IN
          CASE outcome = "error" ->
                 /\ resp' = Resp("lookup", l.guild, l.player, 0, pl.state,
                                 "FailedToAddSong", <<>>, NoSong)
                 /\ UNCHANGED <<players, songLists>>
            [] outcome = "zero" ->
                 /\ resp' = Resp("lookup", l.guild, l.player, 0, pl.state,
                                 "FailedToFindSong", <<>>, NoSong)
                 /\ UNCHANGED <<players, songLists>>
            [] outcome = "one" ->
                 /\ players' = [players EXCEPT ![l.player] =
                                   GP_AddSong(@, SongOf(l.cmd, 1), ok)]
                 /\ resp' = Resp("lookup", l.guild, l.player, 0, pl.state,
                                 IF GP_AddSongErr(pl, ok)
                                 THEN "FailedToAddSong" ELSE "AddedSong",
                                 <<>>, SongOf(l.cmd, 1))
                 /\ UNCHANGED songLists
            [] outcome = "many" ->
                 /\ songLists' = [songLists EXCEPT ![l.guild] = Found(l, ListLen)]
                 /\ resp' = Resp("lookup", l.guild, l.player, 0, pl.state,
                                 "AskAddPlaylist", Found(l, ListLen), NoSong)
                 /\ UNCHANGED players
    /\ UNCHANGED <<guildsPlayers, monitors, interactions, ctxDone>>
    /\ UNCHANGED <<mapUse, goroutines, pipelineVars>>

(* AddSongOrPlaylist, the select-menu handler for a saved song list *)
\* a loop that takes the saved songs from the last to the first
NextSongReversed(r) == r.songs[Len(r.songs) - r.arg]

\* the song of the selection's next AddSong call: songs[0] for "song", the
\* range variable of the loop for "playlist"
NextSong(r) == r.songs[r.arg + 1]

\* AddSongOrPlaylist: the values of the component, the guild, then
\* storage.GetSongList; an empty list is answered at once
AddSongOrPlaylist(g) ==
    /\ Callback
    /\ \E hasValue \in BOOLEAN, guildOk \in BOOLEAN, value \in {"song", "playlist"} :
          LET songs == songLists[g]
              id == interactions + 1 IN
          CASE ~hasValue ->
                 /\ resp' = Resp("select", g, NoPlayer, 0, "none",
                                 "SomethingWentWrong", <<>>, NoSong)
                 /\ goroutines' = goroutines \cup {Returning(id, g)}
            [] hasValue /\ ~guildOk ->
                 /\ resp' = ServerError("select", g, 0)
                 /\ goroutines' = goroutines \cup {Returning(id, g)}
            [] hasValue /\ guildOk /\ Len(songs) = 0 ->
                 /\ resp' = Resp("select", g, NoPlayer, 0, "none",
                                 "AlreadySelected", <<>>, NoSong)
                 /\ goroutines' = goroutines \cup {Returning(id, g)}
            [] hasValue /\ guildOk /\ Len(songs) > 0 ->
                 /\ resp' = NoResp
                 /\ goroutines' = goroutines \cup
                        {[Go(id, "AddSongOrPlaylist", g, 0) EXCEPT
                             !.value = value, !.songs = songs]}
    /\ UNCHANGED <<guildsPlayers, players, lookups, songLists, monitors, ctxDone>>
    /\ UNCHANGED <<mapUse, pipelineVars>>

\* AddSongOrPlaylist: getGuildPlayer's read of the map
AddSongOrPlaylistGet(r) ==
    /\ r \in goroutines
    /\ r.cb = "AddSongOrPlaylist"
    /\ r.pc = "read"
    /\ Become(r, Got(r, getGuildPlayerRead(r.guild)))
    /\ resp' = NoResp
    /\ UNCHANGED <<guildsPlayers, players, lookups, songLists, monitors,
                   interactions, ctxDone>>
    /\ UNCHANGED <<mapUse, pipelineVars>>

\* AddSongOrPlaylist: before the first AddSong the selecting user's voice
\* state (no voice channel is answered and the handler returns); then one
\* AddSong call: the only one for "song", with its answer; for "playlist" one
\* per saved song, failures only logged, and the answer after the last
AddSongOrPlaylistAdd(r) ==
    /\ r \in goroutines
    /\ r.cb = "AddSongOrPlaylist"
    /\ r.pc = "add"
    /\ \E inVoice \in BOOLEAN, ok \in BOOLEAN :
          LET pl == players[r.player] IN
          IF r.arg = 0 /\ ~inVoice
          THEN /\ resp' = Resp("select", r.guild, r.player, 0, pl.state,
                                "NotInVoiceChannel", <<>>, NoSong)
               /\ Become(r, Returning(r.id, r.guild))
               /\ UNCHANGED players
          ELSE /\ players' = [players EXCEPT ![r.player] =
                                 GP_AddSong(@, NextSong(r), ok)]
               /\ IF r.value = "playlist"
                  THEN IF r.arg + 1 < Len(r.songs)
                       THEN /\ resp' = NoResp
                            /\ Become(r, [r EXCEPT !.arg = @ + 1])
                       ELSE /\ resp' = Resp("select", r.guild, r.player, 0, pl.state,
                                             "AddedPlaylist", r.songs, NoSong)
                            /\ Become(r, [r EXCEPT !.arg = @ + 1, !.pc = "delete"])
                  ELSE /\ resp' = Resp("select", r.guild, r.player, 0, pl.state,
                                        IF GP_AddSongErr(pl, ok)
                                        THEN "FailedToAddSong" ELSE "AddedSong",
                                        <<>>, NextSong(r))
                       /\ Become(r, [r EXCEPT !.arg = @ + 1, !.pc = "delete"])
    /\ UNCHANGED <<guildsPlayers, lookups, songLists, monitors, interactions,
                   ctxDone>>
    /\ UNCHANGED <<mapUse, pipelineVars>>

\* AddSongOrPlaylist: storage.DeleteSongList, the handler's last statement
AddSongOrPlaylistDelete(r) ==
    /\ r \in goroutines
    /\ r.cb = "AddSongOrPlaylist"
    /\ r.pc = "delete"
    /\ songLists' = [songLists EXCEPT ![r.guild] = <<>>]
    /\ Become(r, Returning(r.id, r.guild))
    /\ resp' = NoResp
    /\ UNCHANGED <<guildsPlayers, players, lookups, monitors, interactions,
                   ctxDone>>
    /\ UNCHANGED <<mapUse, pipelineVars>>

\* StopPlaying: the guild, then getGuildPlayer
StopPlaying(g) == Enter("StopPlaying", "stop", g, 0)

\* StopPlaying: Stop on the player; an error of Stop is answered with the
\* server error
StopPlayingCall(r) ==
    /\ AtCall(r, "StopPlaying")
    /\ \E failed \in BOOLEAN :
          LET pl == players[r.player] IN
          IF GP_StopErr(pl, failed)
          THEN /\ UNCHANGED players
               /\ resp' = Resp("stop", r.guild, r.player, 0, pl.state,
                                "ServerError", <<>>, NoSong)
          ELSE /\ players' = [players EXCEPT ![r.player] = GP_Stop(@)]
               /\ resp' = Resp("stop", r.guild, r.player, 0, pl.state,
                                "Stopped", <<>>, NoSong)
    /\ Become(r, Returning(r.id, r.guild))
    /\ CallFrame

\* SkipSong: the guild, then getGuildPlayer
SkipSong(g) == Enter("SkipSong", "skip", g, 0)

\* SkipSong: SkipSong on the player, then the answer
SkipSongCall(r) ==
    /\ AtCall(r, "SkipSong")
    /\ players' = [players EXCEPT ![r.player] = GP_SkipSong(@)]
    /\ resp' = Resp("skip", r.guild, r.player, 0, players[r.player].state,
                    "Skipped", <<>>, players[r.player].current)
    /\ Become(r, Returning(r.id, r.guild))
    /\ CallFrame

\* ListPlaylist: the guild, then getGuildPlayer
ListPlaylist(g) == Enter("ListPlaylist", "list", g, 0)

\* the numbered lines written to the message: the loop stops, with "...", at
\* the first line that would take the message over its 4000 characters
RECURSIVE Written(_, _)
Written(playlist, fits) ==
    IF playlist = <<>> \/ ~Head(fits) THEN <<>>
    ELSE <<Head(playlist)>> \o Written(Tail(playlist), Tail(fits))

\* ListPlaylist's answer for the playlist it got: fits tells of each line
\* whether the message still takes it
ListPlaylistAnswer(r, playlist) ==
    \E fits \in [1..Len(playlist) -> BOOLEAN] :
        resp' = Resp("list", r.guild, r.player, 0, players[r.player].state,
                     CASE Len(playlist) = 0 -> "EmptyPlaylist"
                       [] Len(playlist) > 0
                            /\ Len(Written(playlist, fits)) = Len(playlist) -> "Playlist"
                       [] Len(playlist) > 0
                            /\ Len(Written(playlist, fits)) < Len(playlist) -> "PlaylistCut",
                     Written(playlist, fits), NoSong)

\* ListPlaylist: GetPlaylist on the player (on an error the handler returns
\* without answering), then the numbered lines
ListPlaylistCall(r) ==
    /\ AtCall(r, "ListPlaylist")
    /\ \E failed \in BOOLEAN :
          LET pl == players[r.player] IN
          IF failed
          THEN resp' = Resp("list", r.guild, r.player, 0, pl.state, "NoResponse",
                            <<>>, NoSong)
          ELSE ListPlaylistAnswer(r, GP_GetPlaylist(pl))
    /\ UNCHANGED players
    /\ Become(r, Returning(r.id, r.guild))
    /\ CallFrame

\* RemoveSong: the guild, then getGuildPlayer
RemoveSong(g, position) == Enter("RemoveSong", "remove", g, position)

\* RemoveSong's call with `sent` handed to the player's RemoveSong:
\* ErrRemoveInvalidPosition and any other error have their own answers
RemoveSongSent(r, sent) ==
    /\ AtCall(r, "RemoveSong")
    /\ \E failed \in BOOLEAN :
          LET pl == players[r.player] IN
          IF failed
          THEN /\ UNCHANGED players
               /\ resp' = Resp("remove", r.guild, r.player, r.arg, pl.state,
                                "ServerError", <<>>, NoSong)
          ELSE /\ players' = [players EXCEPT ![r.player] = GP_RemoveSong(@, sent)]
               /\ resp' = IF GP_RemoveValid(pl, sent)
                          THEN Resp("remove", r.guild, r.player, r.arg, pl.state,
                                    "Removed", <<>>, pl.queue[sent])
                          ELSE Resp("remove", r.guild, r.player, r.arg, pl.state,
                                    "InvalidPosition", <<>>, NoSong)
    /\ Become(r, Returning(r.id, r.guild))
    /\ CallFrame

\* a handler handing the player a 0-based index
RemoveSongZeroBased(r) == RemoveSongSent(r, r.arg - 1)

\* a handler clamping the position into the queue
RemoveSongClamped(r) == RemoveSongSent(r, IF r.arg < 1 THEN 1 ELSE r.arg)

\* RemoveSong: RemoveSong(int(position)) on the player
RemoveSongCall(r) == RemoveSongSent(r, r.arg)

\* GetPlayingSong: the guild, then getGuildPlayer
GetPlayingSong(g) == Enter("GetPlayingSong", "playing", g, 0)

\* GetPlayingSong: GetPlayedSong on the player; an error is answered with
\* the server error
GetPlayingSongCall(r) ==
    /\ AtCall(r, "GetPlayingSong")
    /\ \E failed \in BOOLEAN :
          LET pl == players[r.player] IN
          IF failed
          THEN resp' = Resp("playing", r.guild, r.player, 0, pl.state,
                            "ServerError", <<>>, NoSong)
          ELSE resp' = Resp("playing", r.guild, r.player, 0, pl.state,
                            IF GP_GetPlayedSong(pl) = NoSong
                            THEN "NothingPlaying" ELSE "NowPlaying",
                            <<>>, GP_GetPlayedSong(pl))
    /\ UNCHANGED players
    /\ Become(r, Returning(r.id, r.guild))
    /\ CallFrame

(* --------------------------- presence monitor --------------------------- *)
\* what player.GetVoiceChannelInfo() holds for the guild of the entry: nothing,
\* a channel whose only member is the bot, a channel with listeners
Infos == {"noinfo", "alone", "listeners"}

\* a loop that stops every player whose channel info shows no listener
SoleMemberOrNoInfo(info) == info # "listeners"

\* the test of the loop body: the info exists and lists exactly one member
SoleMember(info) == info = "alone"

\* the guilds that have an entry in the map
Entries == {g \in Guilds : guildsPlayers[g] # NoPlayer}

\* the number of loops that are inside a tick
Ticking ==
    BagCardinality([m \in {n \in BagToSet(monitors) : n.pc # "wait"} |->
                        CopiesIn(m, monitors)])

\* loop m goes on as n
Turn(m, n) == monitors' = (monitors (-) SetToBag({m})) (+) SetToBag({n})

\* what a statement of a loop leaves unchanged
LoopFrame ==
    /\ UNCHANGED <<guildsPlayers, lookups, songLists, interactions, ctxDone>>
    /\ UNCHANGED <<mapUse, goroutines, pipelineVars>>

\* the select of a loop takes the ticker's case: the range over the map begins
CheckVoiceChannelsPresenceTick(m) ==
    /\ BagIn(m, monitors)
    /\ m.pc = "wait"
    /\ Ticking < MaxTicking
    /\ Turn(m, [m EXCEPT !.pc = "range", !.todo = Entries])
    /\ UNCHANGED players
    /\ resp' = NoResp
    /\ LoopFrame

\* the range produces an entry of the map it has not been through and the
\* loop body reads GetVoiceChannelInfo on the entry's player: without an info
\* for the guild, or with more than one member, the range goes on.  An entry
\* removed before the range reached it is not produced, an entry created
\* during the range is produced or skipped; when no entry that must be
\* produced is left the range may be over and the loop back at its select
CheckVoiceChannelsPresenceRange(m) ==
    /\ BagIn(m, monitors)
    /\ m.pc = "range"
    /\ LET left == Entries \ m.seen IN
       \/ /\ left \cap m.todo = {}
          /\ Turn(m, Loop(m.guild))
          /\ resp' = NoResp
       \/ \E g \in left, info \in Infos :
               /\ resp' = Resp("info", g, guildsPlayers[g], 0, "none", info,
                               <<>>, NoSong)
               /\ IF SoleMember(info)
                  THEN Turn(m, [m EXCEPT !.pc = "stop", !.at = g,
                                         !.player = guildsPlayers[g],
                                         !.seen = @ \cup {g}])
                  ELSE Turn(m, [m EXCEPT !.seen = @ \cup {g}])
    /\ UNCHANGED players
    /\ LoopFrame

\* the loop body: Stop on the entry's player; an error of Stop is logged
CheckVoiceChannelsPresenceStop(m) ==
    /\ BagIn(m, monitors)
    /\ m.pc = "stop"
    /\ \E failed \in BOOLEAN :
          LET pl == players[m.player] IN
          IF GP_StopErr(pl, failed)
          THEN /\ UNCHANGED players
               /\ resp' = Resp("monitor", m.at, m.player, 0, pl.state,
                                "StopFailed", <<>>, NoSong)
          ELSE /\ players' = [players EXCEPT ![m.player] = GP_Stop(@)]
               /\ resp' = Resp("monitor", m.at, m.player, 0, pl.state,
                                "Stopped", <<>>, NoSong)
    /\ Turn(m, [m EXCEPT !.pc = "range", !.at = "none", !.player = NoPlayer])
    /\ LoopFrame

\* the CheckVoiceChannelsPresence loops, statement by statement
CheckVoiceChannelsPresence ==
    \/ \E m \in BagToSet(monitors) : CheckVoiceChannelsPresenceTick(m)
    \/ \E m \in BagToSet(monitors) : CheckVoiceChannelsPresenceRange(m)
    \/ \E m \in BagToSet(monitors) : CheckVoiceChannelsPresenceStop(m)

\* a loop that returns whether or not the context is cancelled
MonitorReturnEarly(m) ==
    /\ BagIn(m, monitors)
    /\ m.pc = "wait"
    /\ monitors' = monitors (-) SetToBag({m})
    /\ UNCHANGED players
    /\ resp' = NoResp
    /\ LoopFrame

\* the select of a loop takes the ctx.Done() case and the loop returns
MonitorReturn(m) ==
    /\ ctxDone
    /\ BagIn(m, monitors)
    /\ m.pc = "wait"
    /\ monitors' = monitors (-) SetToBag({m})
    /\ UNCHANGED players
    /\ resp' = NoResp
    /\ LoopFrame

\* main returns: the deferred cancelCtx cancels the handler's context
CancelCtx ==
    /\ ~ctxDone
    /\ ctxDone' = TRUE
    /\ UNCHANGED <<guildsPlayers, players, lookups, songLists, monitors,
                   interactions>>
    /\ resp' = NoResp
    /\ UNCHANGED <<mapUse, goroutines, pipelineVars>>

(* ------------------- the registry map, access by access ----------------- *)
\* The callbacks run in goroutines of their own and reach handler.guildsPlayers
\* without taking any lock.  A goroutine is at one map access at a time: the
\* store of GuildCreate, the read and the insert of getGuildPlayer, the delete
\* of GuildDelete, the range of the presence monitor, which lasts while the
\* loop body runs for the entries it produces.
AccessKind(pc) ==
    CASE pc \in {"read", "range", "stop"} -> "read"
      [] pc \in {"store", "insert", "delete"} -> "write"
      [] OTHER -> "none"

\* goroutine t reaching the access pc while another goroutine is in an access,
\* one of the two being a write
Races(t, pc) ==
    /\ AccessKind(pc) # "none"
    /\ \E u \in Threads \ {t} :
          /\ AccessKind(mapUse.by[u].pc) # "none"
          /\ "write" \in {AccessKind(pc), AccessKind(mapUse.by[u].pc)}

\* goroutine t goes on to acc; on a race the Go runtime may detect the
\* concurrent map access and throw its fatal error, or not
MoveTo(t, acc) ==
    \E thrown \in BOOLEAN :
        /\ thrown => Races(t, acc.pc)
        /\ mapUse' = [by |-> [mapUse.by EXCEPT ![t] = acc], fatal |-> thrown]

\* where a goroutine goes with the player getGuildPlayer returned: GuildDelete
\* to the Close of the player, a command handler on to the monitor loop of
\* the callback
AfterGet(t, p) ==
    IF mapUse.by[t].cb = "GuildDelete"
    THEN [mapUse.by[t] EXCEPT !.pc = "close", !.player = p]
    ELSE [mapUse.by[t] EXCEPT !.cb = "monitor", !.pc = "wait", !.player = NoPlayer]

\* an event arrives and its callback starts in a goroutine, up to its first
\* access to the map: GuildCreate's store, getGuildPlayer's read
BeginCallback(t, cb, g) ==
    /\ ~mapUse.fatal
    /\ mapUse.by[t].cb = "none"
    /\ MoveTo(t, [cb |-> cb, guild |-> g, player |-> NoPlayer, todo |-> {},
                   seen |-> {},
                   pc |-> IF cb = "GuildCreate" THEN "store" ELSE "read"])
    /\ UNCHANGED <<handlerVars, goroutines, pipelineVars>>

\* GuildCreate's store completes: the new player is in the map, its Run not
\* yet started
GuildCreateStore(t) ==
    /\ ~mapUse.fatal
    /\ mapUse.by[t].pc = "store"
    /\ CanSetup
    /\ players' = Append(players, setupGuildPlayer(mapUse.by[t].guild))
    /\ guildsPlayers' = [guildsPlayers EXCEPT ![mapUse.by[t].guild] = Len(players) + 1]
    /\ MoveTo(t, [mapUse.by[t] EXCEPT !.pc = "run", !.player = Len(players) + 1])
    /\ UNCHANGED <<lookups, songLists, monitors, interactions, ctxDone, resp,
                   goroutines, pipelineVars>>

\* GuildCreate after the store: StartListeningEvents, then Run is started
GuildCreateStart(t) ==
    /\ ~mapUse.fatal
    /\ mapUse.by[t].pc = "run"
    /\ players' = [players EXCEPT ![mapUse.by[t].player].running = TRUE]
    /\ MoveTo(t, IdleThread)
    /\ UNCHANGED <<guildsPlayers, lookups, songLists, monitors, interactions,
                   ctxDone, resp, goroutines, pipelineVars>>

\* getGuildPlayer's read completes: on a hit the goroutine has its player, on
\* a miss it goes on to setupGuildPlayer and the insert
LookupRead(t) ==
    /\ ~mapUse.fatal
    /\ mapUse.by[t].pc = "read"
    /\ IF guildsPlayers[mapUse.by[t].guild] # NoPlayer
       THEN MoveTo(t, AfterGet(t, guildsPlayers[mapUse.by[t].guild]))
       ELSE MoveTo(t, [mapUse.by[t] EXCEPT !.pc = "insert"])
    /\ UNCHANGED <<handlerVars, goroutines, pipelineVars>>

\* getGuildPlayer's insert completes
LookupInsert(t) ==
    /\ ~mapUse.fatal
    /\ mapUse.by[t].pc = "insert"
    /\ CanSetup
    /\ players' = Append(players, setupGuildPlayer(mapUse.by[t].guild))
    /\ guildsPlayers' = [guildsPlayers EXCEPT ![mapUse.by[t].guild] = Len(players) + 1]
    /\ MoveTo(t, AfterGet(t, Len(players) + 1))
    /\ UNCHANGED <<lookups, songLists, monitors, interactions, ctxDone, resp,
                   goroutines, pipelineVars>>

\* GuildDelete's Close of the player it got (an error is logged); the
\* goroutine goes on to its delete
GuildDeleteClosing(t) ==
    /\ ~mapUse.fatal
    /\ mapUse.by[t].pc = "close"
    /\ \E failed \in BOOLEAN :
          players' = [players EXCEPT ![mapUse.by[t].player] =
                         IF GP_CloseErr(@, failed) THEN @ ELSE GP_Close(@)]
    /\ MoveTo(t, [mapUse.by[t] EXCEPT !.pc = "delete"])
    /\ UNCHANGED <<guildsPlayers, lookups, songLists, monitors, interactions,
                   ctxDone, resp, goroutines, pipelineVars>>

\* GuildDelete's delete completes
GuildDeleteRemove(t) ==
    /\ ~mapUse.fatal
    /\ mapUse.by[t].pc = "delete"
    /\ guildsPlayers' = [guildsPlayers EXCEPT ![mapUse.by[t].guild] = NoPlayer]
    /\ MoveTo(t, IdleThread)
    /\ UNCHANGED <<players, lookups, songLists, monitors, interactions, ctxDone,
                   resp, goroutines, pipelineVars>>

\* the ticker fires in a monitor loop: the loop starts to range over the map
MonitorTick(t) ==
    /\ ~mapUse.fatal
    /\ mapUse.by[t].pc = "wait"
    /\ MoveTo(t, [mapUse.by[t] EXCEPT !.pc = "range", !.todo = Entries,
                                       !.seen = {}])
    /\ UNCHANGED <<handlerVars, goroutines, pipelineVars>>

\* the range produces its next entry and the body reads the player's channel
\* info (the loop goes on to Stop when the bot is alone), or the range is over
MonitorRange(t) ==
    /\ ~mapUse.fatal
    /\ mapUse.by[t].pc = "range"
    /\ LET left == Entries \ mapUse.by[t].seen IN
       \/ /\ left \cap mapUse.by[t].todo = {}
          /\ MoveTo(t, [mapUse.by[t] EXCEPT !.pc = "wait", !.todo = {},
                                             !.seen = {}])
       \/ \E g \in left, info \in Infos :
               MoveTo(t, [mapUse.by[t] EXCEPT
                             !.pc = IF SoleMember(info) THEN "stop" ELSE "range",
                             !.player = IF SoleMember(info) THEN guildsPlayers[g]
                                        ELSE NoPlayer,
                             !.seen = @ \cup {g}])
    /\ UNCHANGED <<handlerVars, goroutines, pipelineVars>>

\* the body's Stop on the entry's player, inside the range; an error of Stop
\* is logged
MonitorStop(t) ==
    /\ ~mapUse.fatal
    /\ mapUse.by[t].pc = "stop"
    /\ \E failed \in BOOLEAN :
          players' = [players EXCEPT ![mapUse.by[t].player] =
                         IF GP_StopErr(@, failed) THEN @ ELSE GP_Stop(@)]
    /\ MoveTo(t, [mapUse.by[t] EXCEPT !.pc = "range", !.player = NoPlayer])
    /\ UNCHANGED <<guildsPlayers, lookups, songLists, monitors, interactions,
                   ctxDone, resp, goroutines, pipelineVars>>

(* ---------------------------- specification ----------------------------- *)
Init ==
    /\ guildsPlayers = [g \in Guilds |-> NoPlayer]
    /\ players = <<>>
    /\ lookups = {}
    /\ songLists = [g \in Guilds |-> <<>>]
    /\ monitors = EmptyBag
    /\ interactions = 0
    /\ ctxDone = FALSE
    /\ resp = NoResp
    /\ mapUse = NoMapUse
    /\ goroutines = {}
    /\ metaCache = {}
    /\ audioCache = {}
    /\ flights = {}
    /\ calls = <<>>
    /\ clock = 0
    /\ streams = [p \in PlayerIds |-> NoStream]

\* join events, play commands with getGuildPlayer's insert, their lookup
\* goroutines, and the return of the handlers to main's callback
PlaySteps(G) ==
    \/ \E g \in G : GuildCreate(g)
    \/ \E r \in goroutines : GuildCreateRun(r)
    \/ \E g \in G : PlaySong(g)
    \/ \E r \in goroutines : getGuildPlayerInsert(r)
    \/ \E r \in goroutines : PlaySongVoice(r)
    \/ \E l \in lookups : LookupDone(l)
    \/ \E r \in goroutines : CallbackReturn(r)

\* the players' control loops with their fetch and transport errors
LoopSteps ==
    \/ \E p \in PlayerIds : StartLoading(p)
    \/ \E p \in PlayerIds : FetchDone(p)
    \/ \E p \in PlayerIds : FetchError(p)
    \/ \E p \in PlayerIds : SongComplete(p)
    \/ \E p \in PlayerIds : TransportError(p)
    \/ \E p \in PlayerIds : CancelObserved(p)

\* the stop command
StopSteps(G) ==
    \/ \E g \in G : StopPlaying(g)
    \/ \E r \in goroutines : StopPlayingCall(r)

\* the skip command
SkipSteps(G) ==
    \/ \E g \in G : SkipSong(g)
    \/ \E r \in goroutines : SkipSongCall(r)

\* the list and remove commands
QueueSteps(G) ==
    \/ \E g \in G : ListPlaylist(g)
    \/ \E r \in goroutines : ListPlaylistCall(r)
    \/ \E g \in G, position \in 0..MaxPos : RemoveSong(g, position)
    \/ \E r \in goroutines : RemoveSongCall(r)

\* the commands on a player: stop, skip, list, remove, now-playing
CommandSteps(G) ==
    \/ StopSteps(G)
    \/ SkipSteps(G)
    \/ QueueSteps(G)
    \/ \E g \in G : GetPlayingSong(g)
    \/ \E r \in goroutines : GetPlayingSongCall(r)

\* the selection of a saved song list, storage call by storage call
SelectSteps(G) ==
    \/ \E g \in G : AddSongOrPlaylist(g)
    \/ \E r \in goroutines : AddSongOrPlaylistGet(r)
    \/ \E r \in goroutines : AddSongOrPlaylistAdd(r)
    \/ \E r \in goroutines : AddSongOrPlaylistDelete(r)

\* the leave event, statement by statement
LeaveSteps(G) ==
    \/ \E g \in G : GuildDelete(g)
    \/ \E r \in goroutines : GuildDeleteClose(r)
    \/ \E r \in goroutines : GuildDeleteEntry(r)

\* main's return and the loops returning after it
ShutdownSteps ==
    \/ CancelCtx
    \/ \E m \in BagToSet(monitors) : MonitorReturn(m)

\* the steps of the program for the tenants in G: gateway events and
\* interactions arrive, the callbacks under way take their steps, and so do
\* the lookup goroutines, the monitor loops and the players' control loops,
\* until main returns
Step(G) ==
    \/ PlaySteps(G)
    \/ LeaveSteps(G)
    \/ \E g \in G : OtherInteraction(g)
    \/ SelectSteps(G)
    \/ CommandSteps(G)
    \/ CheckVoiceChannelsPresence
    \/ LoopSteps
    \/ ShutdownSteps

\* the process serving every tenant
Next == Step(Guilds)
Spec == Init /\ [][Next]_vars

\* The specifications below are the process observed while the gateway
\* delivers the events of one family only; each has the steps of Step for
\* those events and nothing else.
Tenant == {"g1"}

\* one tenant's commands: the callbacks of the play, stop, skip, list, remove
\* and now-playing commands under way together, the lookup goroutines and
\* the players' control loops
CommandNext ==
    \/ PlaySteps(Tenant)
    \/ \E g \in Tenant : OtherInteraction(g)
    \/ CommandSteps(Tenant)
    \/ LoopSteps
CommandSpec == Init /\ [][CommandNext]_vars

\* The Go scheduler runs every goroutine: a join event comes to start its
\* player's Run, and every started Run loop and every streaming task goes on.
\* A frame sequence is finite: a running Idle player with a pending song
\* starts loading it, and a song being loaded or streamed comes to its next
\* step.
SongProgress(p) ==
    FetchDone(p) \/ FetchError(p) \/ SongComplete(p) \/ TransportError(p)
        \/ CancelObserved(p)

\* the goroutine a join event starts with go func() { player.Run(...) } runs
StartFairness == WF_vars(\E r \in goroutines : GuildCreateRun(r))

\* the body of Run is the specification's: while the context is live, a loop
\* that can take a step takes one (no loop step is enabled once the context
\* is cancelled, so nothing is asked of a loop after main's return)
LoopFairness ==
    \A p \in PlayerIds : WF_vars(StartLoading(p)) /\ WF_vars(SongProgress(p))

Fairness == StartFairness /\ LoopFairness

\* one tenant's play and skip commands and the control loops, which the
\* scheduler keeps running until main returns: the cancellation of the
\* handler's context, which every Run loop was started with, can come at any
\* point, also while a command's handler is still running
FairNext ==
    \/ PlaySteps(Tenant)
    \/ SkipSteps(Tenant)
    \/ LoopSteps
    \/ ShutdownSteps

FairSpec == Init /\ [][FairNext]_vars /\ Fairness

\* one tenant's queue: songs are added by play commands and by selections of
\* a saved list, listed and removed, while the control loop plays them or
\* fails to load them
QueueNext ==
    \/ PlaySteps(Tenant)
    \/ SelectSteps(Tenant)
    \/ QueueSteps(Tenant)
    \/ \E p \in PlayerIds : StartLoading(p)
    \/ \E p \in PlayerIds : FetchDone(p)
    \/ \E p \in PlayerIds : FetchError(p)
    \/ \E p \in PlayerIds : SongComplete(p)

QueueSpec == Init /\ [][QueueNext]_vars

\* one tenant's join and leave events with the play commands and the control
\* loops in between
RegistryNext ==
    \/ PlaySteps(Tenant)
    \/ LeaveSteps(Tenant)
    \/ \E p \in PlayerIds : StartLoading(p)
    \/ \E p \in PlayerIds : FetchDone(p)
    \/ \E p \in PlayerIds : SongComplete(p)

RegistrySpec == Init /\ [][RegistryNext]_vars

\* one tenant's players, given songs and streaming, with the stop command
\* and the presence monitor: the loops the returned callbacks have entered
MonitorNext ==
    \/ PlaySteps(Tenant)
    \/ StopSteps(Tenant)
    \/ CheckVoiceChannelsPresence
    \/ \E p \in PlayerIds : StartLoading(p)
    \/ \E p \in PlayerIds : FetchDone(p)

MonitorSpec == Init /\ [][MonitorNext]_vars

\* join events and interactions of the tenants in G: each callback comes
\* to enter a presence-monitor loop
ArrivalSteps(G) ==
    \/ \E g \in G : GuildCreate(g)
    \/ \E r \in goroutines : GuildCreateRun(r)
    \/ \E g \in G : OtherInteraction(g)
    \/ \E r \in goroutines : getGuildPlayerInsert(r)
    \/ \E r \in goroutines : CallbackReturn(r)

\* the process up to and after main's return: the tenant joins and leaves,
\* interactions arrive, players are stopped, the loops tick, and the context
\* is cancelled while callbacks are under way
ShutdownNext ==
    \/ ArrivalSteps(Tenant)
    \/ StopSteps(Tenant)
    \/ LeaveSteps(Tenant)
    \/ CheckVoiceChannelsPresence
    \/ ShutdownSteps

\* a statement of a tick under way
TickProgress ==
    \/ \E m \in BagToSet(monitors) : CheckVoiceChannelsPresenceRange(m)
    \/ \E m \in BagToSet(monitors) : CheckVoiceChannelsPresenceStop(m)

\* The scheduler runs every loop, and a select with several ready cases
\* takes each of them sooner or later: a loop inside a tick goes on to its
\* select, and of the loops that are again and again at their select with
\* the context cancelled one returns.
ShutdownFairness ==
    /\ WF_vars(TickProgress)
    /\ SF_vars(\E m \in BagToSet(monitors) : MonitorReturn(m))

ShutdownSpec == Init /\ [][ShutdownNext]_vars /\ ShutdownFairness

\* two tenants side by side: their join events, their interactions and stop
\* commands with the callbacks under way together, and the presence-monitor
\* loops the callbacks enter
IsolationNext ==
    \/ ArrivalSteps(Guilds)
    \/ StopSteps(Guilds)
    \/ CheckVoiceChannelsPresence

\* the two tenants' play commands and lookups with the control loops and
\* their fetch and transport errors
ErrorsNext ==
    \/ PlaySteps(Guilds)
    \/ StopSteps(Guilds)
    \/ \E p \in PlayerIds : StartLoading(p)
    \/ \E p \in PlayerIds : FetchDone(p)
    \/ \E p \in PlayerIds : FetchError(p)
    \/ \E p \in PlayerIds : TransportError(p)

ErrorsSpec == Init /\ [][ErrorsNext]_vars

IsolationSpec == Init /\ [][IsolationNext]_vars

\* one tenant's play commands and selections, the callbacks under way
\* together with their storage and player calls interleaved
SelectNext ==
    \/ PlaySteps(Tenant)
    \/ SelectSteps(Tenant)

SelectSpec == Init /\ [][SelectNext]_vars

\* a play command is issued when the handler of every earlier one has returned
Issue(g) == (\A r \in goroutines : r.pc = "return") /\ PlaySong(g)

\* one tenant's play commands, issued one after the other, with their lookup
\* goroutines and the players' control loops: every song a player is given
\* comes from a lookup
PlayNext ==
    \/ \E g \in Tenant : GuildCreate(g)
    \/ \E r \in goroutines : GuildCreateRun(r)
    \/ \E g \in Tenant : Issue(g)
    \/ \E r \in goroutines : getGuildPlayerInsert(r)
    \/ \E r \in goroutines : PlaySongVoice(r)
    \/ \E l \in lookups : LookupDone(l)
    \/ \E r \in goroutines : CallbackReturn(r)
    \/ \E p \in PlayerIds : StartLoading(p)
    \/ \E p \in PlayerIds : FetchDone(p)
    \/ \E p \in PlayerIds : FetchError(p)
    \/ \E p \in PlayerIds : SongComplete(p)
    \/ \E p \in PlayerIds : TransportError(p)

PlaySpec == Init /\ [][PlayNext]_vars

\* the Audio Source Pipeline serving the Resolve calls of the players
PipelineNext ==
    \/ \E k \in Keys : ResolveCall(k)
    \/ \E f \in flights, size \in 1..MaxSize : FetchFrames(f, size)
    \/ \E f \in flights : FetchFails(f)

PipelineSpec == Init /\ [][PipelineNext]_vars

\* one tenant's playback frame by frame: songs are looked up and queued,
\* loaded and streamed, skipped and stopped
StreamNext ==
    \/ PlaySteps(Tenant)
    \/ SkipSteps(Tenant)
    \/ StopSteps(Tenant)
    \/ \E p \in PlayerIds : StartLoading(p)
    \/ \E p \in PlayerIds : FetchError(p)
    \/ \E p \in PlayerIds : StreamStart(p)
    \/ \E p \in PlayerIds : StreamCheck(p)
    \/ \E p \in PlayerIds : StreamWrite(p)

StreamSpec == Init /\ [][StreamNext]_vars

\* the callbacks of one tenant as the goroutines run them, map access by
\* map access
RaceNext ==
    \/ \E t \in Threads, cb \in {"GuildCreate", "GuildDelete", "command"}, g \in Tenant :
          BeginCallback(t, cb, g)
    \/ \E t \in Threads : GuildCreateStore(t)
    \/ \E t \in Threads : GuildCreateStart(t)
    \/ \E t \in Threads : LookupRead(t)
    \/ \E t \in Threads : LookupInsert(t)
    \/ \E t \in Threads : GuildDeleteClosing(t)
    \/ \E t \in Threads : GuildDeleteRemove(t)
    \/ \E t \in Threads : MonitorTick(t)
    \/ \E t \in Threads : MonitorRange(t)
    \/ \E t \in Threads : MonitorStop(t)

RaceSpec == Init /\ [][RaceNext]_vars

(* ================================ claims ================================ *)
Created == 1..Len(players)

\* this step is a handler's call to the player it got, answering command o
Handled(o) == resp'.op = o /\ resp'.player # NoPlayer

\* the songs added to a player that have neither started nor been removed,
\* in the order of their AddSong calls
NotGone(pl, s) == s \notin Range(pl.started) /\ s \notin pl.removed
Pending(pl) == SelectSeq(pl.added, LAMBDA s : NotGone(pl, s))

NoDuplicates(q) == \A i, j \in 1..Len(q) : q[i] = q[j] => i = j

(* C1: GetPlaylist returns exactly the songs added to the player that are    *)
(* neither streaming nor already played or removed, in the order they were  *)
(* added, and never the streaming song; the list command answers with it,   *)
(* or with its first lines when the message is full.                        *)
C1_PlaylistIsPending ==
    \A p \in Created :
        /\ GP_GetPlaylist(players[p]) = Pending(players[p])
        /\ players[p].current \notin Range(GP_GetPlaylist(players[p]))

\* the first n songs of q
FirstOf(q, n) == [i \in 1..n |-> q[i]]

C1_ListAnswer ==
    Handled("list") =>
        LET pending == Pending(players[resp'.player]) IN
        /\ players' = players
        /\ players[resp'.player].current \notin Range(resp'.list)
        /\ resp'.result \in {"EmptyPlaylist", "Playlist"} => resp'.list = pending
        /\ resp'.result = "EmptyPlaylist" => pending = <<>>
        /\ resp'.result = "Playlist" => pending # <<>>
        /\ resp'.result = "PlaylistCut" =>
              /\ Len(resp'.list) < Len(pending)
              /\ resp'.list = FirstOf(pending, Len(resp'.list))
        /\ resp'.result = "NoResponse" => resp'.list = <<>>

C1_GetPlaylist == []C1_PlaylistIsPending /\ [][C1_ListAnswer]_vars

(* C2: RemoveSong(p) with 1 <= p <= len(pending) removes exactly the p-th    *)
(* pending song, shifts the later ones down keeping their order, and leaves *)
(* the streaming song, the player's state and its token untouched (a call   *)
(* the player fails for another reason changes nothing).                    *)
C2_RemoveStep ==
    (Handled("remove") /\ 1 <= resp'.arg
        /\ resp'.arg <= Len(players[resp'.player].queue)) =>
        LET p == resp'.player
            old == players[p]
            new == players'[p] IN
        \/ resp'.result = "ServerError" /\ players' = players
        \/ /\ resp'.result = "Removed"
           /\ resp'.song = old.queue[resp'.arg]
           /\ new.queue = RemoveAt(old.queue, resp'.arg)
           /\ Len(new.queue) = Len(old.queue) - 1
           /\ \A i \in 1..Len(new.queue) :
                 new.queue[i] = old.queue[IF i < resp'.arg THEN i ELSE i + 1]
           /\ new.current = old.current
           /\ new.state = old.state
           /\ new.cancelled = old.cancelled
           /\ \A q \in Created \ {p} : players'[q] = players[q]

C2_RemoveValid == [][C2_RemoveStep]_vars

\* queue [A, B, C] with A streaming: RemoveSong(1) removed B, C moved down to
\* position 1 and A is still streaming
C2_Witness ==
    /\ resp.op = "remove"
    /\ resp.result = "Removed"
    /\ resp.arg = 1
    /\ resp.before = "Playing"
    /\ players[resp.player].state = "Playing"
    /\ players[resp.player].current # NoSong
    /\ Len(players[resp.player].queue) = 1
    /\ Len(players[resp.player].added) = 3

(* C3: RemoveSong(p) with p outside [1, len(pending)] answers                *)
(* InvalidPosition (the server error when the player fails for another      *)
(* reason) and leaves the queue, the now-playing song and the player's      *)
(* state as they were; the player is not closed by it.                      *)
C3_RemoveStep ==
    (Handled("remove")
        /\ ~(1 <= resp'.arg
             /\ resp'.arg <= Len(players[resp'.player].queue))) =>
        /\ resp'.result \in {"InvalidPosition", "ServerError"}
        /\ resp'.song = NoSong
        /\ players' = players

C3_RemoveInvalid == [][C3_RemoveStep]_vars

\* an out-of-range position was refused while a song streams and one is pending
C3_Witness ==
    /\ resp.op = "remove"
    /\ resp.result = "InvalidPosition"
    /\ resp.player # NoPlayer
    /\ players[resp.player].state = "Playing"
    /\ players[resp.player].queue # <<>>

(* C4 as stated: SkipSong on a Playing player invalidates the song's token  *)
(* and leaves the pending queue as it is; the now-playing slot is only ever  *)
(* filled with the head of the pending queue, which leaves the queue; the   *)
(* skipped song then stops streaming and the player is Idle with no song;   *)
(* and the song that heads the pending queue at the skip becomes the        *)
(* streaming song, unless it is dropped without streaming first (removed,   *)
(* failed to load, or cancelled while loading).  The frame interval the     *)
(* claim bounds this by is wall-clock time: the formula asks only that it   *)
(* happens.                                                                 *)
C4_SkipStep ==
    (Handled("skip") /\ resp'.before = "Playing") =>
        LET old == players[resp'.player]
            new == players'[resp'.player] IN
        /\ new.cancelled
        /\ new.queue = old.queue
        /\ resp'.song = old.current

\* a song leaves the now-playing slot only for the empty slot, and the slot
\* is filled only with the head of the pending queue, which leaves the queue
C4_AdvanceStep ==
    \A p \in Created :
        players'[p].current # players[p].current =>
            \/ /\ players'[p].current = NoSong
               /\ players'[p].state \in {"Idle", "Closed"}
            \/ /\ players[p].current = NoSong
               /\ players[p].queue # <<>>
               /\ players'[p].current = Head(players[p].queue)
               /\ players'[p].queue = Tail(players[p].queue)

\* player p, a player fresh from setupGuildPlayer while p is not yet set up
PlayerOf(p) == IF p \in Created THEN players[p] ELSE setupGuildPlayer("none")

Skipped(p) == PlayerOf(p).state = "Playing" /\ PlayerOf(p).cancelled

Ended(p) == PlayerOf(p).current = NoSong /\ PlayerOf(p).state \in {"Idle", "Closed"}

\* song h is the streaming song of player p
StreamsSong(p, h) == PlayerOf(p).state = "Playing" /\ PlayerOf(p).current = h

\* song h is neither pending nor in the now-playing slot of player p
Dropped(p, h) ==
    h \notin Range(PlayerOf(p).queue) /\ PlayerOf(p).current # h

\* the songs single-result lookups return
Singles == {SongOf(n, 1) : n \in 1..MaxInteractions}

C5_ClosedOnce ==
    \A p \in Created :
        /\ players[p].closes <= 1
        /\ players[p].state = "Closed" <=> players[p].closes = 1
        /\ players[p].state = "Closed" =>
              players[p].queue = <<>> /\ players[p].current = NoSong

C5_StopStep ==
    (Handled("stop") \/ Handled("monitor")) =>
        /\ resp'.result = "Stopped" =>
              /\ players'[resp'.player].state = "Closed"
              /\ players'[resp'.player].closes = 1
        /\ resp'.result # "Stopped" => players' = players
        /\ resp'.before = "Closed" =>
              resp'.result = "Stopped" /\ players' = players

C5_CloseStep ==
    \A p \in Created :
        players'[p].closes # players[p].closes =>
            /\ players[p].state # "Closed"
            /\ players'[p].state = "Closed"
            /\ players'[p].closes = players[p].closes + 1

C5_StopIdempotent == []C5_ClosedOnce /\ [][C5_StopStep /\ C5_CloseStep]_vars

\* a stop command reached a player that an earlier Stop had closed
C5_Witness ==
    /\ resp.op = "stop"
    /\ resp.before = "Closed"
    /\ resp.result = "Stopped"
    /\ players[resp.player].closes = 1

(* C6: for each tenant, at most one of the players ever created for it is   *)
(* streaming a song at any time.                                            *)
Streaming(g) == {p \in Created : players[p].guild = g /\ players[p].state = "Playing"}

C6_OneStreamPerTenant == \A g \in Guilds : Cardinality(Streaming(g)) <= 1

(* C7: a player in the registry that is Idle with a non-empty queue          *)
(* eventually dequeues the head and loads it (unless it is closed or the    *)
(* queue is emptied first).                                                 *)
Registered(p) == \E g \in Guilds : guildsPlayers[g] = p

IdleWithPending(p) ==
    Registered(p) /\ PlayerOf(p).state = "Idle" /\ PlayerOf(p).queue # <<>>

C7_IdleEventuallyLoads ==
    \A p \in PlayerIds :
        IdleWithPending(p) ~>
            \/ PlayerOf(p).state \in {"Loading", "Playing", "Closed"}
            \/ PlayerOf(p).queue = <<>>

(* C8: a song whose fetch or stream fails is never attempted again; the     *)
(* failure leaves the player Idle (not Closed) with its loop running and    *)
(* the pending queue as it was, so the loop takes the next pending song;    *)
(* n songs that all fail are drained after exactly n attempts.              *)
C8_NoRetry ==
    \A p \in Created :
        /\ NoDuplicates(players[p].started)
        /\ Range(players[p].started) \subseteq Range(players[p].added)
        /\ players[p].failed \subseteq Range(players[p].started)
        /\ \A s \in players[p].failed :
              s \notin Range(players[p].queue) /\ s # players[p].current
        /\ (players[p].added # <<>> /\ players[p].failed = Range(players[p].added)) =>
              /\ Len(players[p].started) = Len(players[p].added)
              /\ players[p].queue = <<>>
              /\ players[p].current = NoSong

C8_ErrorStep ==
    \A p \in Created :
        players'[p].failed # players[p].failed =>
            /\ players[p].current # NoSong
            /\ players'[p].failed = players[p].failed \cup {players[p].current}
            /\ players'[p].state = "Idle"
            /\ players'[p].current = NoSong
            /\ players'[p].queue = players[p].queue
            /\ players'[p].running

C8_StartStep ==
    \A p \in Created :
        players'[p].started # players[p].started =>
            /\ players[p].queue # <<>>
            /\ players'[p].started = Append(players[p].started, Head(players[p].queue))
            /\ players'[p].current = Head(players[p].queue)

C8_ErrorsAdvance == []C8_NoRetry /\ [][C8_ErrorStep /\ C8_StartStep]_vars

(* C9: once a player is Closed nothing changes it any more: AddSong,         *)
(* SkipSong, RemoveSong, Stop and the control loop leave its queue and      *)
(* state as they are, it never starts streaming and it stays Closed (a join *)
(* event that was under way may still start its Run loop, which finds       *)
(* nothing to do).                                                          *)
C9_ClosedStep ==
    \A p \in Created :
        players[p].state = "Closed" =>
            [players'[p] EXCEPT !.running = players[p].running] = players[p]

C9_ClosedIsFinal == [][C9_ClosedStep]_vars

\* the lookup goroutine of a play command called AddSong on a Closed player
C9_Witness ==
    /\ resp.op = "lookup"
    /\ resp.before = "Closed"
    /\ resp.result = "FailedToAddSong"
    /\ resp.song # NoSong
    /\ players[resp.player].state = "Closed"
    /\ players[resp.player].queue = <<>>

(* C10 as stated: a player's state changes only along Idle->Loading (queue   *)
(* non-empty, no stream active), Loading->Playing, Playing->Idle and        *)
(* ->Closed.                                                                *)
IdleToLoading(old, new) ==
    /\ old.state = "Idle" /\ new.state = "Loading"
    /\ old.queue # <<>> /\ old.current = NoSong

ListedEdge(old, new) ==
    \/ IdleToLoading(old, new)
    \/ old.state = "Loading" /\ new.state = "Playing"
    \/ old.state = "Playing" /\ new.state = "Idle"
    \/ old.state # "Closed" /\ new.state = "Closed"

C10_ListedEdgesStep ==
    \A p \in Created :
        players'[p].state # players[p].state => ListedEdge(players[p], players'[p])

C10_OnlyListedEdges == [][C10_ListedEdgesStep]_vars

(* C12 as stated: a player is constructed only when the registry holds no    *)
(* entry for its tenant, and from then until the tenant's leave event the   *)
(* registry resolves the tenant to that same player: a join event for a     *)
(* tenant already present does not replace it.                              *)
C12_CreateStep ==
    Len(players') > Len(players) =>
        guildsPlayers[players'[Len(players')].guild] = NoPlayer

\* goroutine r runs the leave event of guild g and this step is its delete
Leaves(r, g) == r.cb = "GuildDelete" /\ r.guild = g /\ GuildDeleteEntry(r)

C12_KeepStep ==
    \A g \in Guilds :
        (guildsPlayers[g] # NoPlayer /\ guildsPlayers'[g] # guildsPlayers[g]) =>
            \E r \in goroutines : Leaves(r, g)

C12_LookupOrCreateOnly == [][C12_CreateStep /\ C12_KeepStep]_vars

(* C13 as stated: a join event for an available tenant leaves a registry     *)
(* entry whose player has its control loop started; a leave event stops the *)
(* tenant's player first and only then removes the entry, so that after it  *)
(* the registry has no entry for the tenant and no player of the tenant is  *)
(* Loading or Playing.                                                      *)
C13_JoinStep ==
    /\ \A g \in Guilds :
          (GuildCreate(g) /\ players' # players) =>
              /\ guildsPlayers'[g] = Len(players')
              /\ players'[guildsPlayers'[g]].guild = g
    /\ \A r \in goroutines :
          (r.cb = "GuildCreate" /\ r \notin goroutines') =>
              players'[r.player].running

C13_LeaveStep ==
    \A g \in Guilds, r \in goroutines :
        Leaves(r, g) =>
            /\ players[r.player].state = "Closed"
            /\ guildsPlayers'[g] = NoPlayer
            /\ \A p \in 1..Len(players') :
                  players'[p].guild = g =>
                      players'[p].state \notin {"Loading", "Playing"}

C13_JoinAndLeave == [][C13_JoinStep /\ C13_LeaveStep]_vars

(* C14 as stated: the set of tenants present in the registry changes only   *)
(* by a join event (insertion) or a leave event (removal); command handlers *)
(* and the presence monitor leave it unchanged.                             *)
Present == {g \in Guilds : guildsPlayers[g] # NoPlayer}

C14_PresentStep ==
    Present' # Present =>
        \E g \in Guilds : GuildCreate(g) \/ \E r \in goroutines : Leaves(r, g)

C14_OnlyJoinAndLeave == [][C14_PresentStep]_vars

(* C16: inside a tick the presence monitor calls Stop on the player of an   *)
(* entry exactly when the channel info it has read for that player lists    *)
(* the bot alone: with a listener in the channel, or without an info, the   *)
(* loop goes on to the next entry and no player changes; every Stop the     *)
(* monitor issues follows such a reading, for the player it was read for.   *)
\* the loops on their way to Stop on player p
Stopping(B, p) ==
    BagCardinality([m \in {n \in BagToSet(B) : n.pc = "stop" /\ n.player = p}
                        |-> CopiesIn(m, B)])

C16_InfoStep ==
    resp'.op = "info" =>
        LET p == resp'.player IN
        /\ players' = players
        /\ guildsPlayers[resp'.guild] = p
        /\ \E m \in BagToSet(monitors) :
              m.pc = "range" /\ CopiesIn(m, monitors') < CopiesIn(m, monitors)
        /\ \A q \in Created \ {p} : Stopping(monitors', q) = Stopping(monitors, q)
        /\ IF resp'.result = "alone"
           THEN Stopping(monitors', p) = Stopping(monitors, p) + 1
           ELSE /\ resp'.result \in {"noinfo", "listeners"}
                /\ Stopping(monitors', p) = Stopping(monitors, p)

C16_StopStep ==
    /\ resp'.op = "monitor" =>
          LET p == resp'.player IN
          /\ Stopping(monitors, p) > 0
          /\ Stopping(monitors', p) = Stopping(monitors, p) - 1
          /\ \A q \in Created \ {p} :
                players'[q] = players[q] /\ Stopping(monitors', q) = Stopping(monitors, q)
          /\ resp'.result = "Stopped" => players'[p].state = "Closed"
          /\ resp'.result # "Stopped" => players' = players
    /\ \A p \in Created :
          /\ Stopping(monitors', p) > Stopping(monitors, p) =>
                resp'.op = "info" /\ resp'.result = "alone" /\ resp'.player = p
          /\ Stopping(monitors', p) < Stopping(monitors, p) =>
                resp'.op = "monitor" /\ resp'.player = p
    /\ (monitors' # monitors /\ resp'.op # "monitor") => players' = players

C16_StopsIffAlone == [][C16_InfoStep /\ C16_StopStep]_vars

\* a loop found the bot alone in the channel of a player that had been
\* given a song and stopped it
C16_Witness ==
    /\ resp.op = "monitor"
    /\ resp.result = "Stopped"
    /\ resp.before # "Closed"
    /\ players[resp.player].state = "Closed"

(* C17: once the context is cancelled every running presence-monitor loop   *)
(* eventually returns; a loop returns only after the cancellation, from its *)
(* select; and a loop that has returned is gone: the channel infos are read *)
(* and the Stops are issued by the loops that are running.                  *)
Loops == BagCardinality(monitors)

C17_ReturnStep ==
    Loops' < Loops =>
        /\ ctxDone
        /\ \E m \in BagToSet(monitors) :
              m.pc = "wait" /\ monitors' = monitors (-) SetToBag({m})

C17_QuietStep ==
    /\ resp'.op \in {"info", "monitor"} =>
          \E m \in BagToSet(monitors) :
              /\ m.pc = IF resp'.op = "info" THEN "range" ELSE "stop"
              /\ CopiesIn(m, monitors') < CopiesIn(m, monitors)
    /\ Loops' > Loops =>
          /\ Loops' = Loops + 1
          /\ \/ \E r \in goroutines : r.pc = "return" /\ r \notin goroutines'
             \/ interactions' = interactions + 1

C17_MonitorTerminates ==
    /\ [][C17_ReturnStep /\ C17_QuietStep]_vars
    /\ ctxDone ~> (monitors = EmptyBag)

\* the context is cancelled, loops were running at the cancellation and all
\* of them have returned, with a player they could have stopped in the map
C17_Witness ==
    /\ ctxDone
    /\ monitors = EmptyBag
    /\ goroutines = {}
    /\ interactions >= 2
    /\ \E p \in Created : Registered(p) /\ players[p].state # "Closed"

(* C15 as stated: the accesses to the registry map exclude one another: at   *)
(* no time is a goroutine writing the map while another goroutine reads or  *)
(* writes it.                                                               *)
Accessing(t) == AccessKind(mapUse.by[t].pc) # "none"

Writing(t) == AccessKind(mapUse.by[t].pc) = "write"

C15_MapAccessExclusive ==
    \A t, u \in Threads : (t # u /\ Writing(t)) => ~Accessing(u)

(* C11: the streamer checks the token before each frame write: once Skip or *)
(* Stop has invalidated the token at most one more frame of the song (the   *)
(* write already past its check) reaches the VoiceSession; a check that     *)
(* finds the token invalidated ends the stream, and no frame follows.       *)
C11_OneLateFrame == \A p \in PlayerIds : streams[p].late <= 1

\* this step wrote a frame of player p's song to the VoiceSession
FrameWritten(p) == streams[p].pc = "write" /\ streams'[p].pc = "check"

C11_WriteStep ==
    \A p \in Created :
        /\ (FrameWritten(p) /\ players[p].cancelled) =>
              streams[p].late = 0 /\ streams'[p].late = 1
        /\ (streams[p].pc = "check" /\ players[p].cancelled
                /\ streams'[p] # streams[p]) =>
              streams'[p].pc = "none" /\ streams'[p].left = streams[p].left
        /\ (streams[p].pc = "none" /\ streams'[p] # streams[p]) =>
              /\ streams'[p].pc = "check"
              /\ streams'[p].late = 0
              /\ ~players'[p].cancelled

C11_CancelStopsFrames == []C11_OneLateFrame /\ [][C11_WriteStep]_vars

\* the stop command closed the player while its streamer was past the check:
\* that one frame was written, the next check ended the stream with frames
\* of the song left
C11_Witness ==
    \E p \in Created :
        /\ players[p].state = "Closed"
        /\ streams[p].pc = "none"
        /\ streams[p].late = 1
        /\ streams[p].left > 0

(* C18: Resolve calls for one key that are under way together share one      *)
(* invocation of the fetch collaborator: at most one fetch is in flight per *)
(* key, a call arriving during it starts no other and waits on it, and all  *)
(* the calls of a fetch receive the same frames or the same error.          *)
CallIds == 1..Len(calls)

C18_OneFlightPerKey ==
    /\ \A f, g \in flights : f.key = g.key => f = g
    /\ \A i \in CallIds :
          calls[i].result = "pending" <=>
              \E f \in flights :
                  i \in f.waiters /\ f.key = calls[i].key /\ f.id = calls[i].fetch

C18_SameResult ==
    \A i, j \in CallIds :
        (calls[i].fetch # NoFetch /\ calls[i].fetch = calls[j].fetch) =>
            /\ calls[i].key = calls[j].key
            /\ calls[i].result = calls[j].result
            /\ calls[i].payload = calls[j].payload

C18_JoinStep ==
    (Len(calls') > Len(calls)
        /\ \E f \in flights : f.key = calls'[Len(calls')].key) =>
        /\ {f.id : f \in flights'} = {f.id : f \in flights}
        /\ \E f \in flights :
              /\ f.key = calls'[Len(calls')].key
              /\ calls'[Len(calls')].fetch = f.id

C18_SingleFlight ==
    [](C18_OneFlightPerKey /\ C18_SameResult) /\ [][C18_JoinStep]_vars

\* three calls for one key were under way together, one fetch served them all
\* and each received its frames
C18_Witness ==
    \E i, j, k \in CallIds :
        /\ i < j /\ j < k
        /\ calls[i].fetch = i /\ calls[j].fetch = i /\ calls[k].fetch = i
        /\ calls[k].result = "frames"
        /\ calls[k].payload = i

(* C19: the entries of a cache never add up to more than its capacity, and  *)
(* an insertion that would exceed it evicts and succeeds: the fetched       *)
(* frames are in the cache and every waiter has them.                       *)
C19_WithinCapacity ==
    /\ CacheSize(audioCache) <= Capacity
    /\ CacheSize(metaCache) <= MetaCapacity
    /\ \A c \in {audioCache, metaCache} :
          \A e, f \in c : e.key = f.key => e = f
    /\ \A i \in CallIds : calls[i].result \in {"pending", "frames", "TranscodeFailed"}

C19_InsertStep ==
    /\ \A i \in CallIds :
          (calls[i].result = "pending" /\ calls'[i].result = "frames") =>
              /\ CacheHas(audioCache', calls[i].key)
              /\ CacheEntry(audioCache', calls[i].key).payload = calls'[i].payload
    /\ Len(calls') > Len(calls) => CacheHas(metaCache', calls'[Len(calls')].key)

C19_CapacityKept == []C19_WithinCapacity /\ [][C19_InsertStep]_vars

\* an insertion into the full audio cache evicted two entries and the cache
\* is full again
C19_Witness ==
    /\ CacheSize(audioCache) = Capacity
    /\ \E i \in CallIds :
          calls[i].result = "frames" /\ Cardinality(calls[i].evicted) = 2

(* C20: an eviction removes the entries with the oldest last-access times:  *)
(* every entry evicted by a step was accessed (hit or inserted) before      *)
(* every entry of the cache that the step keeps.                            *)
OldestGo(c, d) ==
    \A x, y \in c :
        (~CacheHas(d, x.key) /\ CacheHas(d, y.key)) => x.at < y.at

C20_EvictStep == OldestGo(audioCache, audioCache') /\ OldestGo(metaCache, metaCache')

C20_LeastRecentlyUsedGo == [][C20_EvictStep]_vars

\* an entry inserted earlier than an evicted one is still in the cache: a hit
\* just before the sweep made it the more recently used of the two
C20_Witness ==
    \E i \in CallIds :
        \E x \in calls[i].evicted :
            \E y \in audioCache : y.born < x.born /\ y.at > x.at

(* C21: tenants are isolated: a callback under way for tenant X holds a     *)
(* player of X, the one its read of the registry found under X; each of its *)
(* steps touches only the registry entry, the saved song list and the       *)
(* players of X; a fetch or transport error changes the failing player      *)
(* alone; the players, the queue and the now-playing song of every other    *)
(* tenant are left exactly as they were.                                    *)
PlayersOf(g) == {p \in Created : players[p].guild = g}

\* the registry entries, saved lists and players of the tenants other than g
\* are after the step as they were before it
OthersKept(g) ==
    \A h \in Guilds \ {g} :
        /\ guildsPlayers'[h] = guildsPlayers[h]
        /\ songLists'[h] = songLists[h]
        /\ \A p \in PlayersOf(h) : players'[p] = players[p]

C21_OwnPlayer ==
    /\ \A r \in goroutines :
          r.player # NoPlayer => players[r.player].guild = r.guild
    /\ \A l \in lookups : players[l.player].guild = l.guild
    /\ \A g \in Guilds :
          guildsPlayers[g] # NoPlayer => players[guildsPlayers[g]].guild = g

C21_HandlerStep ==
    /\ resp'.op # "none" =>
          /\ OthersKept(resp'.guild)
          /\ \A p \in Created : players'[p] # players[p] => p = resp'.player
          /\ resp'.player # NoPlayer => players'[resp'.player].guild = resp'.guild
    /\ \A r \in goroutines : r \notin goroutines' => OthersKept(r.guild)
    /\ \A r \in goroutines' :
          r \notin goroutines =>
              /\ r.guild \in Guilds => OthersKept(r.guild)
              /\ (r.player # NoPlayer
                     /\ \A o \in goroutines :
                            ~(o.id = r.id /\ o.cb = r.cb /\ o.player = r.player)) =>
                    guildsPlayers[r.guild] = r.player
                        \/ r.player \in Created' \ Created
    /\ \A p \in Created' \ Created :
          \E r \in goroutines' : r.player = p /\ r.guild = players'[p].guild

C21_ErrorStep ==
    \A p \in Created :
        players'[p].failed # players[p].failed =>
            \A q \in Created \ {p} : players'[q] = players[q]

C21_LoopStep ==
    \A p, q \in Created :
        (players'[p] # players[p] /\ players'[q] # players[q]) =>
            players[p].guild = players[q].guild

\* a player stopped by a presence-monitor loop is stopped by the loop of a
\* callback of its own tenant
C21_MonitorStep ==
    \A m \in BagToSet(monitors) :
        (m.pc = "stop" /\ CopiesIn(m, monitors') < CopiesIn(m, monitors)) =>
            m.guild = players[m.player].guild

C21_TenantIsolation ==
    /\ []C21_OwnPlayer
    /\ [][C21_HandlerStep /\ C21_ErrorStep /\ C21_LoopStep /\ C21_MonitorStep]_vars

(* C22: an AddSong that returns an error (the voice session cannot be       *)
(* opened) ends the play command: the goroutine sends its one failure       *)
(* notification and returns, the player is as it was, and the song of a     *)
(* command that has ended without its song in a queue or a saved list is    *)
(* never added or started later.                                            *)
AddSongFailed ==
    /\ resp'.op = "lookup"
    /\ resp'.result = "FailedToAddSong"
    /\ resp'.song # NoSong

\* play command c has ended and its song is in no player, in no saved list
\* and in no list a selection under way has read
EndedUnqueued(c) ==
    /\ c <= interactions
    /\ \A r \in goroutines : r.id = c => r.pc = "return"
    /\ \A r \in goroutines : SongOf(c, 1) \notin Range(r.songs)
    /\ \A l \in lookups : l.cmd # c
    /\ \A p \in Created : SongOf(c, 1) \notin Range(players[p].added)
    /\ \A g \in Guilds : SongOf(c, 1) \notin Range(songLists[g])

C22_FailStep ==
    AddSongFailed =>
        /\ players' = players
        /\ songLists' = songLists
        /\ \E l \in lookups :
              /\ SongOf(l.cmd, 1) = resp'.song
              /\ lookups' = lookups \ {l}
              /\ EndedUnqueued(l.cmd)'

C22_StayStep == \A c \in 1..MaxInteractions : EndedUnqueued(c) => EndedUnqueued(c)'

C22_Started ==
    \A p \in Created :
        /\ Range(players[p].started) \subseteq Range(players[p].added)
        /\ players[p].current # NoSong => players[p].current \in Range(players[p].added)

C22_AddSongErrorEnds == []C22_Started /\ [][C22_FailStep /\ C22_StayStep]_vars

\* AddSong returned an error to the goroutine of a play command although the
\* player was not Closed, and the player has never been given a song
C22_Witness ==
    /\ resp.op = "lookup"
    /\ resp.result = "FailedToAddSong"
    /\ resp.song # NoSong
    /\ resp.before = "Idle"
    /\ players[resp.player].added = <<>>
    /\ players[resp.player].running

(* C23: a player is only given resolved songs. The play handler itself      *)
(* changes no existing player and starts its goroutine only for a requester *)
(* in a voice channel; the goroutine calls AddSong only for a result of     *)
(* exactly one song, with that song; a failed lookup or an empty result     *)
(* changes neither a player nor a saved list; a result of several songs is  *)
(* saved as the guild's pending list and no player changes (its songs are   *)
(* enqueued by a later selection, if at all).                               *)
C23_PlayStep ==
    /\ resp'.op = "play" =>
          /\ players' = players
          /\ songLists' = songLists
          /\ lookups' # lookups => resp'.result = "Adding"
          /\ resp'.result = "Adding" =>
                \E r \in goroutines :
                    /\ r.cb = "PlaySong" /\ r \notin goroutines'
                    /\ lookups' = lookups \cup {[cmd |-> r.id, guild |-> resp'.guild,
                                                 player |-> resp'.player]}
    /\ \A p \in Created :
          players'[p].added # players[p].added =>
              \/ resp'.op = "lookup"
              \/ \E r \in goroutines \ goroutines' :
                     r.cb = "AddSongOrPlaylist" /\ r.pc = "add" /\ r.player = p
    /\ \A p \in Created' \ Created : players'[p].added = <<>>

C23_LookupStep ==
    resp'.op = "lookup" =>
        \E l \in lookups :
          /\ lookups' = lookups \ {l}
          /\ resp'.player = l.player
          /\ \A p \in Created \ {l.player} : players'[p] = players[p]
          /\ CASE resp'.result = "FailedToAddSong" /\ resp'.song = NoSong ->
                     players' = players /\ songLists' = songLists
                [] resp'.result = "FailedToFindSong" ->
                     players' = players /\ songLists' = songLists
                [] resp'.result = "AskAddPlaylist" ->
                     /\ players' = players
                     /\ Len(resp'.list) > 1
                     /\ songLists' = [songLists EXCEPT ![l.guild] = resp'.list]
                [] resp'.result = "AddedSong" ->
                     /\ resp'.song = SongOf(l.cmd, 1)
                     /\ players'[l.player].added =
                            Append(players[l.player].added, resp'.song)
                     /\ songLists' = songLists
                [] resp'.result = "FailedToAddSong" /\ resp'.song # NoSong ->
                     /\ resp'.song = SongOf(l.cmd, 1)
                     /\ players' = players
                     /\ songLists' = songLists

C23_Resolved == \A p \in Created : NoSong \notin Range(players[p].added)

C23_OnlyResolvedSongs == []C23_Resolved /\ [][C23_PlayStep /\ C23_LookupStep]_vars

\* a lookup has returned several songs for a player that has a queued song
\* of an earlier command: the list is saved and the queue is as it was
C23_Witness ==
    /\ resp.op = "lookup"
    /\ resp.result = "AskAddPlaylist"
    /\ songLists[resp.guild] = resp.list
    /\ Len(players[resp.player].added) = 1
    /\ players[resp.player].queue # <<>>

(* C24: at most one presence monitor loop is active at any time, however    *)
(* many interactions have been handled. The interaction callback calls      *)
(* CheckVoiceChannelsPresence after the command handler, and that call      *)
(* loops until the context is cancelled: every handled interaction leaves   *)
(* one more loop ticking, and its callback does not return before shutdown. *)
C24_OneMonitor == BagCardinality(monitors) <= 1

(* C25: a saved song list is consumed at most once, also when two           *)
(* goroutines of one channel are handled concurrently: no song of a list    *)
(* is given to a player twice. AddSongOrPlaylist reads the list with        *)
(* GetSongList and deletes it with DeleteSongList as its last statement,    *)
(* and nothing keeps a second selection from reading the list in between.   *)
C25_ConsumedOnce ==
    /\ \A p \in Created : NoDuplicates(players[p].added)
    /\ \A p, q \in Created :
          p # q => Range(players[p].added) \cap Range(players[q].added) = {}

(* C26: the songs of play commands issued one after the other, each         *)
(* resolving to one song, are appended to a player in the order the         *)
(* commands were issued. AddSong is called by the goroutine PlaySong        *)
(* starts, after LookupSongs has returned, and the handler returns without  *)
(* waiting for it: the lookup of the later command may return first.        *)
IssuedBy(song) == ((song - 1) \div ListLen) + 1

C26_IssueOrder ==
    \A p \in Created :
        \A i, j \in 1..Len(players[p].added) :
            i < j => IssuedBy(players[p].added[i]) < IssuedBy(players[p].added[j])

(* C27: AddSongOrPlaylist with a non-empty saved list s1..sn and the user   *)
(* in a voice channel: "playlist" calls AddSong once for every s_i in saved *)
(* order, going on after a call that failed; any other value calls it once, *)
(* with s1; either way the guild's saved list is deleted afterwards. With   *)
(* an empty saved list, or the user in no voice channel, AddSong is not     *)
(* called, and the list stays when the user is in no voice channel.         *)
\* goroutine r runs a selection and this step is one of its statements
Selecting(r) == r.cb = "AddSongOrPlaylist" /\ r \notin goroutines'

\* this step is r's AddSong call with song s: the player has s appended, or
\* is as it was when the call failed, and no other player changes
Called(r, s) ==
    /\ players'[r.player] \in
           {players[r.player],
            [players[r.player] EXCEPT !.queue = Append(@, s), !.added = Append(@, s)]}
    /\ \A q \in Created \ {r.player} : players'[q] = players[q]

\* the calls a selection makes: one per saved song, or one
CallsOf(r) == IF r.value = "playlist" THEN Len(r.songs) ELSE 1

C27_BeginStep ==
    /\ resp'.op = "select" /\ resp'.player = NoPlayer =>
          /\ players' = players /\ songLists' = songLists
          /\ resp'.result = "AlreadySelected" => songLists[resp'.guild] = <<>>
    /\ \A r \in goroutines' :
          (r.cb = "AddSongOrPlaylist" /\ r.pc = "read" /\ r \notin goroutines) =>
              /\ r.songs = songLists[r.guild] /\ r.songs # <<>> /\ r.arg = 0
              /\ players' = players /\ songLists' = songLists

C27_SelectStep ==
    \A r \in goroutines :
        Selecting(r) =>
            CASE r.pc = "add" /\ resp'.result = "NotInVoiceChannel" ->
                   /\ r.arg = 0
                   /\ players' = players /\ songLists' = songLists
                   /\ Returning(r.id, r.guild) \in goroutines'
              [] r.pc = "add" /\ resp'.result # "NotInVoiceChannel" ->
                   /\ r.arg < CallsOf(r)
                   /\ Called(r, r.songs[r.arg + 1])
                   /\ songLists' = songLists
                   /\ [r EXCEPT !.arg = r.arg + 1,
                                !.pc = IF r.arg + 1 < CallsOf(r) THEN "add"
                                       ELSE "delete"] \in goroutines'
                   /\ resp'.op = "select" <=> r.arg + 1 = CallsOf(r)
              [] r.pc = "delete" ->
                   /\ r.arg = CallsOf(r)
                   /\ players' = players
                   /\ songLists' = [songLists EXCEPT ![r.guild] = <<>>]
                   /\ Returning(r.id, r.guild) \in goroutines'
              [] OTHER -> songLists' = songLists

C27_SelectionAdds == [][C27_BeginStep /\ C27_SelectStep]_vars

\* "playlist" was selected for a saved list of three songs: AddSong failed
\* for the second song, the first and the third are in the queue, and the
\* saved list is deleted
C27_Witness ==
    \E p \in Created, c \in 1..MaxInteractions :
        /\ players[p].added = <<SongOf(c, 1), SongOf(c, 3)>>
        /\ songLists[players[p].guild] = <<>>
        /\ \A r \in goroutines : r.cb # "AddSongOrPlaylist"

====
